---- MODULE Spec2Model ----
(***************************************************************************)
(* Model of the Prior ProScanIII controller support of microscope          *)
(* (microscope/controllers/prior.py): the connection shared by the logical *)
(* devices of one controller, its lock, its command/reply protocols and    *)
(* the adapters built on it.                                               *)
(*                                                                         *)
(* Byte strings are sequences of one-character strings.  Every thread runs *)
(* a stack of frames, one per active call; each action is one step of one  *)
(* method, so that threads interleave between any two accesses to shared   *)
(* state (the lock, the serial port, its timeout).                         *)
(***************************************************************************)
EXTENDS Integers, Sequences, FiniteSets, TLC

VARIABLES
    held,       \* held[t]: how many times thread t holds the RLock
    timeout,    \* the serial port's read timeout, in tenths of a second
    inbuf,      \* bytes received by the port and not yet read
    inflight,   \* chunks the device has sent that have not arrived yet
    old,        \* which of these bytes answer a command older than the last one
    wire,       \* the access to the serial port made by the last step
    conn,       \* "new", "ok" or "failed": the connection's construction
    stack,      \* stack[t]: the frames of the calls thread t is in
    ret,        \* ret[t]: the value returned by the call that ended last
    exc,        \* exc[t]: the exception thread t is raising
    cur,        \* cur[t]: record of the call thread t's caller made last
    devices,    \* the adapters that have been constructed
    calls,      \* how many calls the threads' callers have made
    limits,     \* limits[name]: the _limits of the adapter of axis name
    runs,       \* runs[name]: the _find_limits runs that moved axis name
    _devices,   \* the controller's map: its labels with their adapters
    tmc,        \* the Thorlabs library: the status bits of the channels
    nanomax,    \* the call of ThorlabsNanoMax.enable: its position and locals
    ueye        \* MockLibueye: its cameras and the call made last

\* the programs that stand beside the ProScanIII controller
others == <<tmc, nanomax, ueye>>

\* what the connection's own methods leave alone
rest == <<devices, calls, limits, runs, _devices, others>>

vars == <<held, timeout, inbuf, inflight, old, wire, conn, stack, ret, exc, cur,
          devices, calls, limits, runs, _devices, tmc, nanomax, ueye>>

Threads == {"t1", "t2"}
MainThread == "t1"

-----------------------------------------------------------------------------
(* Bounds of the model *)

\* chunks that may be in flight at once
MaxInflight == 1
\* calls made on the connection and the adapters once it is built
MaxCalls == 2
\* no move command starts once its timeout would exceed this
MaxTimeout == 500
\* nesting depth of changed_timeout scopes opened by a caller
MaxNest == 2
\* positions an axis is moved to: -MaxPos..MaxPos and 10 * MaxPos
MaxPos == 1
\* wheel numbers asked for: -1..MaxWheel + 1
MaxWheel == 3

\* ProScanIII.__init__: timeout = 0.5, in tenths of a second
DefaultTimeout == 5

-----------------------------------------------------------------------------
(* Byte strings *)

CR == "\r"
LF == "\n"

StartsWith(s, p) == Len(s) >= Len(p) /\ SubSeq(s, 1, Len(p)) = p

EndsWith(s, p) == Len(s) >= Len(p) /\ SubSeq(s, Len(s) - Len(p) + 1, Len(s)) = p

\* the length of the shortest prefix of s that ends with term, 0 if none does
FindEnd(s, term) ==
    LET I == {i \in 1..Len(s) : EndsWith(SubSeq(s, 1, i), term)}
    IN  IF I = {} THEN 0 ELSE CHOOSE i \in I : \A j \in I : i <= j

Digits == <<"0", "1", "2", "3", "4", "5", "6", "7", "8", "9">>

RECURSIVE NatToBytes(_)
NatToBytes(n) ==
    IF n < 10 THEN <<Digits[n + 1]>>
    ELSE NatToBytes(n \div 10) \o <<Digits[(n % 10) + 1]>>

\* b'%d' % n
IntToBytes(n) == IF n < 0 THEN <<"-">> \o NatToBytes(-n) ELSE NatToBytes(n)

\* the reply to a set command, and the reply that ends a move
Ack0 == <<"0", CR>>
AckR == <<"R", CR>>
EndMarker == <<CR, "E", "N", "D", CR>>
Header == <<"P", "R", "O", "S", "C", "A", "N", " ", "I", "N", "F", "O", "R",
            "M", "A", "T", "I", "O", "N", CR>>
NoneMarker == <<"N", "O", "N", "E", CR>>

CmdIdentify == <<"?">>
CmdStage == <<"S", "T", "A", "G", "E">>
StagePrefix == <<"S", "T", "A", "G", "E", " ", "=", " ">>
CmdFilter(number) == <<"F", "I", "L", "T", "E", "R", " ">> \o IntToBytes(number)
FilterPrefix(number) ==
    <<"F", "I", "L", "T", "E", "R", "_">> \o IntToBytes(number) \o <<" ", "=", " ">>
CmdPX == <<"P", "X">>
CmdGX(pos) == <<"G", "X", " ">> \o IntToBytes(pos)
CmdGY(pos) == <<"G", "Y", " ">> \o IntToBytes(pos)
CmdEnable(command, axis, mode) ==
    command \o <<" ">> \o axis \o <<" ">> \o IntToBytes(IF mode THEN 1 ELSE 0)
ENCODER == <<"E", "N", "C", "O", "D", "E", "R">>
SERVO == <<"S", "E", "R", "V", "O">>
CmdFPW(number) == <<"F", "P", "W", " ">> \o IntToBytes(number)
\* a filter wheel command that asks wheel 1 whatever the number
CmdGetFilter_First(number) == <<"7", " ", "1", " ", "F">>

CmdGetFilter(number) == <<"7", " ">> \o IntToBytes(number) \o <<" ", "F">>
CmdSetFilter(number, pos) ==
    <<"7", " ">> \o IntToBytes(number) \o <<" ">> \o IntToBytes(pos)

-----------------------------------------------------------------------------
(* The device at the other end of the serial line *)

\* what a description command may be answered with: the block of a device
\* that is there, of one that is not, a block cut short, another reply
Blocks(prefix) ==
    { prefix \o <<"H">> \o EndMarker,
      prefix \o NoneMarker \o <<"E", "N", "D", CR>>,
      prefix \o <<"H", CR>>,
      Ack0 }

\* the description of a stage of 1 mm by 1 mm with 2 microsteps per micron
StageBlock ==
    StagePrefix \o <<"H", CR>>
    \o <<"S", "I", "Z", "E", "_", "X", " ", "=", " ", "1", " ", "M", "M", CR>>
    \o <<"S", "I", "Z", "E", "_", "Y", " ", "=", " ", "1", " ", "M", "M", CR>>
    \o <<"M", "I", "C", "R", "O", "S", "T", "E", "P", "S", "/",
          "M", "I", "C", "R", "O", "N", " ", "=", " ", "2">>
    \o EndMarker

\* what 'STAGE' may be answered with
StageReplies == (Blocks(StagePrefix) \ {StagePrefix \o <<"H">> \o EndMarker})
                \cup {StageBlock}

\* what 'LMT' may be answered with: no switch, the lower ones, the upper ones
LimitReplies == { <<"0", "0", CR>>, <<"0", "A", CR>>, <<"0", "5", CR>> }

CmdLMT == <<"L", "M", "T">>
CmdGR(x, y, z) ==
    <<"G", "R", " ">> \o IntToBytes(x) \o <<" ">> \o IntToBytes(y)
    \o <<" ">> \o IntToBytes(z)
CmdPY == <<"P", "Y">>

IdentifyReplies ==
    { Header \o <<"H">> \o EndMarker,
      Header \o <<"E", "N", "D", CR>>,
      Header \o <<"H", CR>>,
      Ack0 }

LineReplies == { Ack0, AckR, <<"R">> }

\* what a query of a number may be answered with
NumberReplies == { <<"4", CR>>, <<"-", "3", CR>>, AckR }

DeviceReplies(command) ==
    IF command = CmdIdentify THEN IdentifyReplies
    ELSE IF StartsWith(command, <<"7", " ">>) /\ EndsWith(command, <<" ", "F">>)
         THEN NumberReplies
    ELSE IF command = CmdStage THEN StageReplies
    ELSE IF command = CmdLMT THEN LimitReplies
    ELSE IF command = CmdPY THEN NumberReplies
    ELSE IF StartsWith(command, <<"F", "I", "L", "T", "E", "R", " ">>)
         THEN Blocks(<<"F", "I", "L", "T", "E", "R", "_">>
                     \o SubSeq(command, 8, Len(command)) \o <<" ", "=", " ">>)
    ELSE LineReplies

\* how long after the read starts a chunk arrives, in tenths of a second
Delays == {0, 20}

\* serial.Serial.read_until(term) with the port's timeout tmo: the bytes up to
\* and including term, or what arrived before the timeout
RECURSIVE SerialRead(_, _, _, _)
SerialRead(buf, fl, tmo, term) ==
    LET i == FindEnd(buf, term)
    IN  IF i > 0
        THEN [line |-> SubSeq(buf, 1, i), buf |-> SubSeq(buf, i + 1, Len(buf)), fl |-> fl]
        ELSE IF fl # <<>> /\ Head(fl).delay <= tmo
        THEN SerialRead(buf \o Head(fl).data, Tail(fl), tmo - Head(fl).delay, term)
        ELSE [line |-> buf, buf |-> <<>>, fl |-> fl]

\* old.buf[i]: byte i of inbuf answers a command written before the last
\* write; old.fl[i]: so does chunk i of inflight
NoOld == [buf |-> <<>>, fl |-> <<>>]

Tags(n, b) == [i \in 1..n |-> b]

\* a command is written and the device sends the reply r after the delay d:
\* what the device had sent before answers older commands
Written(r, d) ==
    [buf |-> Tags(Len(inbuf), TRUE) \o (IF d = 0 THEN Tags(Len(r), FALSE) ELSE <<>>),
     fl |-> Tags(Len(inflight), TRUE) \o (IF d = 0 THEN <<>> ELSE <<FALSE>>)]

\* the tags of the bytes of the first k chunks in flight
RECURSIVE ChunkTags(_, _)
ChunkTags(k, i) ==
    IF i > k THEN <<>>
    ELSE Tags(Len(inflight[i].data), old.fl[i]) \o ChunkTags(k, i + 1)

\* the read r has taken its line from the buffer and the chunks that arrived
\* while it waited
Taken(r) ==
    LET k == Len(inflight) - Len(r.fl)
        all == old.buf \o ChunkTags(k, 1)
    IN  [line |-> SubSeq(all, 1, Len(r.line)),
         buf |-> SubSeq(all, Len(r.line) + 1, Len(all)),
         fl |-> SubSeq(old.fl, k + 1, Len(old.fl))]

\* the line of the read r has a byte that answers an older command
Late(r) == \E i \in 1..Len(r.line) : Taken(r).line[i]

NoWire == [by |-> "none", kind |-> "none", data |-> <<>>]
Wire(t, kind, data) == [by |-> t, kind |-> kind, data |-> data]

\* time passes: the oldest chunk in flight arrives
Arrive ==
    /\ inflight # <<>>
    /\ inbuf' = inbuf \o Head(inflight).data
    /\ inflight' = Tail(inflight)
    /\ old' = [buf |-> old.buf \o Tags(Len(Head(inflight).data), Head(old.fl)),
               fl |-> Tail(old.fl)]
    /\ wire' = NoWire
    /\ UNCHANGED <<held, timeout, conn, stack, ret, exc, cur, rest>>

-----------------------------------------------------------------------------
(* Frames, calls, returns and exceptions *)

\* self of a method of the connection
NoDevice == [kind |-> "none", name |-> <<>>, number |-> 0]

Frame(proc, pc, cmd, exp, n) ==
    [proc |-> proc, pc |-> pc, cmd |-> cmd, exp |-> exp, n |-> n,
     ans |-> <<>>, new |-> 0, prev |-> 0, entry |-> 0, dev |-> NoDevice,
     initial |-> 0, lower |-> 0, upper |-> 0]

NoExc == [kind |-> "none", cmd |-> <<>>, reply |-> <<>>]
Error(kind, cmd, reply) == [kind |-> kind, cmd |-> cmd, reply |-> reply]

NoRet == [bytes |-> <<>>, bool |-> FALSE, int |-> 0, pair |-> <<>>, map |-> {}]
Bytes(b) == [NoRet EXCEPT !.bytes = b]
Bool(b) == [NoRet EXCEPT !.bool = b]
Number(n) == [NoRet EXCEPT !.int = n]
Pair(p) == [NoRet EXCEPT !.pair = p]
Mapping(m) == [NoRet EXCEPT !.map = m]

Idle == [name |-> "none", status |-> "idle", arg |-> <<>>, n |-> 0, sent |-> <<>>,
         reply |-> <<>>, block |-> <<>>, drains |-> 0, tmo |-> 0, dev |-> NoDevice,
         got |-> <<>>, pair |-> <<>>, late |-> FALSE]

Top(t) == stack[t][Len(stack[t])]

At(t, proc, pc) ==
    /\ stack[t] # <<>>
    /\ exc[t].kind = "none"
    /\ Top(t).proc = proc
    /\ Top(t).pc = pc

\* the top frame of t becomes f
Becomes(t, f) == stack' = [stack EXCEPT ![t] = [@ EXCEPT ![Len(@)] = f]]

Goto(t, pc) == Becomes(t, [Top(t) EXCEPT !.pc = pc])

\* t calls g and will go on at pc when it returns
Call(t, pc, g) ==
    stack' = [stack EXCEPT ![t] = Append([@ EXCEPT ![Len(@)].pc = pc], g)]

\* the top frame of t returns value; c is the record of the call of t's caller
Return(t, value, c) ==
    /\ stack' = [stack EXCEPT ![t] = SubSeq(@, 1, Len(@) - 1)]
    /\ ret' = [ret EXCEPT ![t] = value]
    /\ cur' = [cur EXCEPT ![t] = IF Len(stack[t]) = 1
                                 THEN [c EXCEPT !.status = "ok"] ELSE c]

Raise(t, e) == exc' = [exc EXCEPT ![t] = e]

\* a lock that lets the main thread in whoever holds it
CanAcquire_Main(t) == t = MainThread \/ \A u \in Threads \ {t} : held[u] = 0

\* a lock that never makes a thread wait
CanAcquire_Always(t) == TRUE

\* threading.RLock: free, or held by the thread that asks for it
CanAcquire(t) == \A u \in Threads \ {t} : held[u] = 0

\* a with block that takes the lock twice and gives it back once
Acquire_Twice(t) == held' = [held EXCEPT ![t] = @ + 2]

\* a with block that does not take the lock
Acquire_Forget(t) == held' = held

Acquire(t) == held' = [held EXCEPT ![t] = @ + 1]

\* a with block that keeps the lock when it ends
Release_Forget(t) == held' = held

Release(t) == held' = [held EXCEPT ![t] = @ - 1]

-----------------------------------------------------------------------------
(* _ProScanIIIConnection: the primitives *)

\* command(command): with self._lock: self._serial.write(command + b'\r')
command(t) ==
    \/ /\ At(t, "command", "lock")
       /\ CanAcquire(t)
       /\ Acquire(t)
       /\ Goto(t, "write")
       /\ wire' = NoWire
       /\ UNCHANGED <<timeout, inbuf, inflight, old, conn, ret, exc, cur, rest>>
    \/ /\ At(t, "command", "write")
       /\ \E r \in DeviceReplies(Top(t).cmd) \cup {<<>>}, d \in Delays :
            /\ r = <<>> => d = 0
            /\ Len(inflight) >= MaxInflight => d = 0
            /\ inbuf' = IF d = 0 THEN inbuf \o r ELSE inbuf
            /\ inflight' = IF d = 0 THEN inflight
                           ELSE Append(inflight, [data |-> r, delay |-> d])
            /\ old' = Written(r, d)
       /\ wire' = Wire(t, "write", Top(t).cmd \o <<CR>>)
       /\ cur' = [cur EXCEPT ![t].sent = Append(@, Top(t).cmd \o <<CR>>)]
       /\ Goto(t, "unlock")
       /\ UNCHANGED <<held, timeout, conn, ret, exc, rest>>
    \/ /\ At(t, "command", "unlock")
       /\ Release(t)
       /\ Return(t, NoRet, cur[t])
       /\ wire' = NoWire
       /\ UNCHANGED <<timeout, inbuf, inflight, old, conn, exc, rest>>

\* readline(): with self._lock: return self._serial.read_until(b'\r')
readline(t) ==
    \/ /\ At(t, "readline", "lock")
       /\ CanAcquire(t)
       /\ Acquire(t)
       /\ Goto(t, "read")
       /\ wire' = NoWire
       /\ UNCHANGED <<timeout, inbuf, inflight, old, conn, ret, exc, cur, rest>>
    \/ /\ At(t, "readline", "read")
       /\ \E r \in {SerialRead(inbuf, inflight, timeout, <<CR>>)} :
              /\ inbuf' = r.buf
              /\ inflight' = r.fl
              /\ old' = [buf |-> Taken(r).buf, fl |-> Taken(r).fl]
              /\ wire' = Wire(t, "read", r.line)
              /\ Becomes(t, [Top(t) EXCEPT !.pc = "unlock", !.ans = r.line])
              /\ cur' = [cur EXCEPT ![t].tmo = timeout,
                                    ![t].late = @ \/ Late(r)]
       /\ UNCHANGED <<held, timeout, conn, ret, exc, rest>>
    \/ /\ At(t, "readline", "unlock")
       /\ Release(t)
       /\ Return(t, Bytes(Top(t).ans), cur[t])
       /\ wire' = NoWire
       /\ UNCHANGED <<timeout, inbuf, inflight, old, conn, exc, rest>>

\* a drain that stops after its first read
DrainDone_Always(line) == TRUE

\* while len(self._serial.readline()) != 0: continue
DrainDone(line) == Len(line) = 0

\* read_until_timeout(): flush the input, then read lines until one is empty
read_until_timeout(t) ==
    \/ /\ At(t, "read_until_timeout", "lock")
       /\ CanAcquire(t)
       /\ Acquire(t)
       /\ Goto(t, "flush")
       /\ wire' = NoWire
       /\ UNCHANGED <<timeout, inbuf, inflight, old, conn, ret, exc, cur, rest>>
    \/ /\ At(t, "read_until_timeout", "flush")
       /\ inbuf' = <<>>
       /\ old' = [old EXCEPT !.buf = <<>>]
       /\ wire' = Wire(t, "flush", <<>>)
       /\ Goto(t, "loop")
       /\ UNCHANGED <<held, timeout, inflight, conn, ret, exc, cur, rest>>
    \/ /\ At(t, "read_until_timeout", "loop")
       /\ \E r \in {SerialRead(inbuf, inflight, timeout, <<LF>>)} :
              /\ inbuf' = r.buf
              /\ inflight' = r.fl
              /\ old' = [buf |-> Taken(r).buf, fl |-> Taken(r).fl]
              /\ wire' = Wire(t, "read", r.line)
              /\ Goto(t, IF DrainDone(r.line) THEN "unlock" ELSE "loop")
              /\ cur' = [cur EXCEPT ![t].drains = IF DrainDone(r.line) THEN @ + 1 ELSE @]
       /\ UNCHANGED <<held, timeout, conn, ret, exc, rest>>
    \/ /\ At(t, "read_until_timeout", "unlock")
       /\ Release(t)
       /\ Return(t, NoRet, cur[t])
       /\ wire' = NoWire
       /\ UNCHANGED <<timeout, inbuf, inflight, old, conn, exc, rest>>

\* get_command(command): with self._lock: command, then readline
get_command(t) ==
    \/ /\ At(t, "get_command", "lock")
       /\ CanAcquire(t)
       /\ Acquire(t)
       /\ Goto(t, "call_command")
       /\ wire' = NoWire
       /\ UNCHANGED <<timeout, inbuf, inflight, old, conn, ret, exc, cur, rest>>
    \/ /\ At(t, "get_command", "call_command")
       /\ Call(t, "call_readline", Frame("command", "lock", Top(t).cmd, <<>>, 0))
       /\ wire' = NoWire
       /\ UNCHANGED <<held, timeout, inbuf, inflight, old, conn, ret, exc, cur, rest>>
    \/ /\ At(t, "get_command", "call_readline")
       /\ Call(t, "unlock", Frame("readline", "lock", <<>>, <<>>, 0))
       /\ wire' = NoWire
       /\ UNCHANGED <<held, timeout, inbuf, inflight, old, conn, ret, exc, cur, rest>>
    \/ /\ At(t, "get_command", "unlock")
       /\ Release(t)
       /\ Return(t, ret[t], [cur[t] EXCEPT !.reply = ret[t].bytes,
                                          !.got = Append(@, ret[t].bytes)])
       /\ wire' = NoWire
       /\ UNCHANGED <<timeout, inbuf, inflight, old, conn, exc, rest>>

\* a validation that lets a read that timed out pass
Unexpected_Timeout(answer, expected) == answer # expected /\ answer # <<>>

\* answer != expected
Unexpected(answer, expected) == answer # expected

\* _command_and_validate(command, expected)
_command_and_validate(t) ==
    \/ /\ At(t, "_command_and_validate", "lock")
       /\ CanAcquire(t)
       /\ Acquire(t)
       /\ Goto(t, "call_get")
       /\ wire' = NoWire
       /\ UNCHANGED <<timeout, inbuf, inflight, old, conn, ret, exc, cur, rest>>
    \/ /\ At(t, "_command_and_validate", "call_get")
       /\ Call(t, "check", Frame("get_command", "lock", Top(t).cmd, <<>>, 0))
       /\ wire' = NoWire
       /\ UNCHANGED <<held, timeout, inbuf, inflight, old, conn, ret, exc, cur, rest>>
    \/ /\ At(t, "_command_and_validate", "check")
       /\ Becomes(t, [Top(t) EXCEPT
                        !.pc = IF Unexpected(ret[t].bytes, Top(t).exp)
                               THEN "drain" ELSE "unlock",
                        !.ans = ret[t].bytes])
       /\ wire' = NoWire
       /\ UNCHANGED <<held, timeout, inbuf, inflight, old, conn, ret, exc, cur, rest>>
    \/ /\ At(t, "_command_and_validate", "drain")
       /\ Call(t, "raise", Frame("read_until_timeout", "lock", <<>>, <<>>, 0))
       /\ wire' = NoWire
       /\ UNCHANGED <<held, timeout, inbuf, inflight, old, conn, ret, exc, cur, rest>>
    \/ /\ At(t, "_command_and_validate", "raise")
       /\ Raise(t, Error("RuntimeError", Top(t).cmd, Top(t).ans))
       /\ wire' = NoWire
       /\ UNCHANGED <<held, timeout, inbuf, inflight, old, conn, stack, ret, cur, rest>>
    \/ /\ At(t, "_command_and_validate", "unlock")
       /\ Release(t)
       /\ Return(t, NoRet, cur[t])
       /\ wire' = NoWire
       /\ UNCHANGED <<timeout, inbuf, inflight, old, conn, exc, rest>>

-----------------------------------------------------------------------------
(* _ProScanIIIConnection: the protocols *)

\* the timeout move_command asks for: 10 * self._serial.timeout
MoveTimeout(tmo) == 10 * tmo

\* a finally clause that sets the configured timeout
Restored_Default(f) == DefaultTimeout

\* the timeout the finally clause of changed_timeout sets
Restored(f) == f.prev

\* the frames that hold a changed_timeout scope open
InScope(f) == f.proc \in {"move_command", "scope"} /\ f.pc \in {"body", "ct_finally"}

\* changed_timeout(new_timeout), entered by the with statement of the top frame
changed_timeout(t) ==
    \/ /\ stack[t] # <<>> /\ exc[t].kind = "none" /\ Top(t).pc = "ct_prev"
       /\ Becomes(t, [Top(t) EXCEPT !.pc = "ct_set", !.prev = timeout, !.entry = timeout])
       /\ wire' = NoWire
       /\ UNCHANGED <<held, timeout, inbuf, inflight, old, conn, ret, exc, cur, rest>>
    \/ /\ stack[t] # <<>> /\ exc[t].kind = "none" /\ Top(t).pc = "ct_set"
       /\ timeout' = Top(t).new
       /\ Goto(t, "body")
       /\ wire' = NoWire
       /\ UNCHANGED <<held, inbuf, inflight, old, conn, ret, exc, cur, rest>>
    \/ /\ stack[t] # <<>> /\ exc[t].kind = "none" /\ Top(t).pc = "ct_finally"
       /\ timeout' = Restored(Top(t))
       /\ Return(t, NoRet, cur[t])
       /\ wire' = NoWire
       /\ UNCHANGED <<held, inbuf, inflight, old, conn, exc, rest>>

\* move_command(command)
move_command(t) ==
    \/ /\ At(t, "move_command", "arg")
       /\ MoveTimeout(timeout) <= MaxTimeout
       /\ Becomes(t, [Top(t) EXCEPT !.pc = "ct_prev", !.new = MoveTimeout(timeout)])
       /\ wire' = NoWire
       /\ UNCHANGED <<held, timeout, inbuf, inflight, old, conn, ret, exc, cur, rest>>
    \/ /\ At(t, "move_command", "body")
       /\ Call(t, "ct_finally", Frame("_command_and_validate", "lock", Top(t).cmd, AckR, 0))
       /\ wire' = NoWire
       /\ UNCHANGED <<held, timeout, inbuf, inflight, old, conn, ret, exc, cur, rest>>

\* set_command(command)
set_command(t) ==
    \/ /\ At(t, "set_command", "call")
       /\ Call(t, "ret", Frame("_command_and_validate", "lock", Top(t).cmd, Ack0, 0))
       /\ wire' = NoWire
       /\ UNCHANGED <<held, timeout, inbuf, inflight, old, conn, ret, exc, cur, rest>>
    \/ /\ At(t, "set_command", "ret")
       /\ Return(t, NoRet, cur[t])
       /\ wire' = NoWire
       /\ UNCHANGED <<held, timeout, inbuf, inflight, old, conn, exc, rest>>

\* get_description(command)
get_description(t) ==
    \/ /\ At(t, "get_description", "lock")
       /\ CanAcquire(t)
       /\ Acquire(t)
       /\ Goto(t, "call_command")
       /\ wire' = NoWire
       /\ UNCHANGED <<timeout, inbuf, inflight, old, conn, ret, exc, cur, rest>>
    \/ /\ At(t, "get_description", "call_command")
       /\ Call(t, "read", Frame("command", "lock", Top(t).cmd, <<>>, 0))
       /\ wire' = NoWire
       /\ UNCHANGED <<held, timeout, inbuf, inflight, old, conn, ret, exc, cur, rest>>
    \/ /\ At(t, "get_description", "read")
       /\ \E r \in {SerialRead(inbuf, inflight, timeout, EndMarker)} :
              /\ inbuf' = r.buf
              /\ inflight' = r.fl
              /\ old' = [buf |-> Taken(r).buf, fl |-> Taken(r).fl]
              /\ wire' = Wire(t, "read", r.line)
              /\ Becomes(t, [Top(t) EXCEPT !.pc = "unlock", !.ans = r.line])
              /\ cur' = [cur EXCEPT ![t].tmo = timeout,
                                    ![t].late = @ \/ Late(r)]
       /\ UNCHANGED <<held, timeout, conn, ret, exc, rest>>
    \/ /\ At(t, "get_description", "unlock")
       /\ Release(t)
       /\ Return(t, Bytes(Top(t).ans), [cur[t] EXCEPT !.reply = Top(t).ans,
                                                   !.got = Append(@, Top(t).ans)])
       /\ wire' = NoWire
       /\ UNCHANGED <<timeout, inbuf, inflight, old, conn, exc, rest>>

\* the test without its negation
Present_Negated(description, expected_start) ==
    StartsWith(description, expected_start \o NoneMarker)

\* not description.startswith(expected_start + b'NONE\r')
Present(description, expected_start) ==
    ~StartsWith(description, expected_start \o NoneMarker)

\* _has_thing(command, expected_start)
_has_thing(t) ==
    \/ /\ At(t, "_has_thing", "lock")
       /\ CanAcquire(t)
       /\ Acquire(t)
       /\ Goto(t, "call_desc")
       /\ wire' = NoWire
       /\ UNCHANGED <<timeout, inbuf, inflight, old, conn, ret, exc, cur, rest>>
    \/ /\ At(t, "_has_thing", "call_desc")
       /\ Call(t, "check", Frame("get_description", "lock", Top(t).cmd, <<>>, 0))
       /\ wire' = NoWire
       /\ UNCHANGED <<held, timeout, inbuf, inflight, old, conn, ret, exc, cur, rest>>
    \/ /\ At(t, "_has_thing", "check")
       /\ Becomes(t, [Top(t) EXCEPT
                        !.pc = IF ~StartsWith(ret[t].bytes, Top(t).exp)
                               THEN "drain" ELSE "unlock",
                        !.ans = ret[t].bytes])
       /\ wire' = NoWire
       /\ UNCHANGED <<held, timeout, inbuf, inflight, old, conn, ret, exc, cur, rest>>
    \/ /\ At(t, "_has_thing", "drain")
       /\ Call(t, "raise", Frame("read_until_timeout", "lock", <<>>, <<>>, 0))
       /\ wire' = NoWire
       /\ UNCHANGED <<held, timeout, inbuf, inflight, old, conn, ret, exc, cur, rest>>
    \/ /\ At(t, "_has_thing", "raise")
       /\ Raise(t, Error("RuntimeError", Top(t).cmd, Top(t).ans))
       /\ wire' = NoWire
       /\ UNCHANGED <<held, timeout, inbuf, inflight, old, conn, stack, ret, cur, rest>>
    \/ /\ At(t, "_has_thing", "unlock")
       /\ Release(t)
       /\ Goto(t, "ret")
       /\ wire' = NoWire
       /\ UNCHANGED <<timeout, inbuf, inflight, old, conn, ret, exc, cur, rest>>
    \/ /\ At(t, "_has_thing", "ret")
       /\ Return(t, Bool(Present(Top(t).ans, Top(t).exp)), cur[t])
       /\ wire' = NoWire
       /\ UNCHANGED <<held, timeout, inbuf, inflight, old, conn, exc, rest>>

\* has_stage()
has_stage(t) ==
    \/ /\ At(t, "has_stage", "call")
       /\ Call(t, "ret", Frame("_has_thing", "lock", CmdStage, StagePrefix, 0))
       /\ wire' = NoWire
       /\ UNCHANGED <<held, timeout, inbuf, inflight, old, conn, ret, exc, cur, rest>>
    \/ /\ At(t, "has_stage", "ret")
       /\ Return(t, ret[t], cur[t])
       /\ wire' = NoWire
       /\ UNCHANGED <<held, timeout, inbuf, inflight, old, conn, exc, rest>>

\* a test that only asks for some bytes after the header
EndOfDescription_Any(line) == line # <<>>

\* line.endswith(b'\rEND\r')
EndOfDescription(line) == EndsWith(line, EndMarker)

\* __init__(port, baudrate, timeout): the identification of the device
Connection_init(t) ==
    \/ /\ At(t, "__init__", "lock")
       /\ CanAcquire(t)
       /\ Acquire(t)
       /\ Goto(t, "call_command")
       /\ wire' = NoWire
       /\ UNCHANGED <<timeout, inbuf, inflight, old, conn, ret, exc, cur, rest>>
    \/ /\ At(t, "__init__", "call_command")
       /\ Call(t, "call_readline", Frame("command", "lock", CmdIdentify, <<>>, 0))
       /\ wire' = NoWire
       /\ UNCHANGED <<held, timeout, inbuf, inflight, old, conn, ret, exc, cur, rest>>
    \/ /\ At(t, "__init__", "call_readline")
       /\ Call(t, "check", Frame("readline", "lock", <<>>, <<>>, 0))
       /\ wire' = NoWire
       /\ UNCHANGED <<held, timeout, inbuf, inflight, old, conn, ret, exc, cur, rest>>
    \/ /\ At(t, "__init__", "check")
       /\ Becomes(t, [Top(t) EXCEPT
                        !.pc = IF ret[t].bytes # Header THEN "drain" ELSE "read_end",
                        !.ans = ret[t].bytes])
       /\ cur' = [cur EXCEPT ![t].reply = ret[t].bytes,
                             ![t].got = Append(@, ret[t].bytes)]
       /\ wire' = NoWire
       /\ UNCHANGED <<held, timeout, inbuf, inflight, old, conn, ret, exc, rest>>
    \/ /\ At(t, "__init__", "drain")
       /\ Call(t, "raise", Frame("read_until_timeout", "lock", <<>>, <<>>, 0))
       /\ wire' = NoWire
       /\ UNCHANGED <<held, timeout, inbuf, inflight, old, conn, ret, exc, cur, rest>>
    \/ /\ At(t, "__init__", "raise")
       /\ Raise(t, Error("RuntimeError", CmdIdentify, Top(t).ans))
       /\ wire' = NoWire
       /\ UNCHANGED <<held, timeout, inbuf, inflight, old, conn, stack, ret, cur, rest>>
    \/ /\ At(t, "__init__", "read_end")
       /\ \E r \in {SerialRead(inbuf, inflight, timeout, EndMarker)} :
              /\ inbuf' = r.buf
              /\ inflight' = r.fl
              /\ old' = [buf |-> Taken(r).buf, fl |-> Taken(r).fl]
              /\ wire' = Wire(t, "read", r.line)
              /\ Becomes(t, [Top(t) EXCEPT
                               !.pc = IF ~EndOfDescription(r.line)
                                      THEN "raise_end" ELSE "unlock",
                               !.exp = r.line])
              /\ cur' = [cur EXCEPT ![t].block = r.line]
       /\ UNCHANGED <<held, timeout, conn, ret, exc, rest>>
    \/ /\ At(t, "__init__", "raise_end")
       \* the message names the command and nothing of what was read
       /\ Raise(t, Error("RuntimeError", CmdIdentify, <<>>))
       /\ wire' = NoWire
       /\ UNCHANGED <<held, timeout, inbuf, inflight, old, conn, stack, ret, cur, rest>>
    \/ /\ At(t, "__init__", "unlock")
       /\ Release(t)
       /\ Return(t, NoRet, cur[t])
       /\ conn' = "ok"
       /\ wire' = NoWire
       /\ UNCHANGED <<timeout, inbuf, inflight, old, exc, rest>>

\* the frames inside a with self._lock block
InLock(f) ==
    /\ f.proc \in {"command", "readline", "read_until_timeout", "get_command",
                   "_command_and_validate", "get_description", "_has_thing", "__init__"}
    /\ f.pc \notin {"lock", "ret"}

\* an exception leaves the top frame: the with and finally clauses of the
\* frame run, and the exception goes on to the caller
Unwind(t) ==
    /\ stack[t] # <<>>
    /\ exc[t].kind # "none"
    /\ held' = IF InLock(Top(t)) THEN [held EXCEPT ![t] = @ - 1] ELSE held
    /\ timeout' = IF InScope(Top(t)) THEN Restored(Top(t)) ELSE timeout
    /\ stack' = [stack EXCEPT ![t] = SubSeq(@, 1, Len(@) - 1)]
    /\ cur' = [cur EXCEPT ![t] =
                 [@ EXCEPT !.status = IF Len(stack[t]) > 1 THEN @
                                      ELSE IF exc[t].kind = "return" THEN "ok"
                                      ELSE "failed"]]
    /\ exc' = [exc EXCEPT ![t] = IF Len(stack[t]) = 1 /\ @.kind = "return"
                                 THEN NoExc ELSE @]
    /\ conn' = IF Top(t).proc = "__init__" THEN "failed" ELSE conn
    /\ wire' = NoWire
    /\ UNCHANGED <<inbuf, inflight, old, ret, rest>>

-----------------------------------------------------------------------------
(* The adapters and the calls that reach the connection through them *)

\* an assertion that lets wheel 0 through
AssertFilterwheelNumber_Zero(number) == number >= 0 /\ number < 4

AssertFilterwheelNumber(number) == number > 0 /\ number < 4

AssertAxisName(name) == Len(name) = 1 /\ name[1] \in {"S", "X", "Y", "Z", "A"}

\* the axes of the stage
StageAxes == {<<"X">>, <<"Y">>}

\* the names _ProScanIIIStageAxis accepts
ValidAxisName(name) == name \in {<<"X">>, <<"Y">>}

\* self._limits = None
NoLimits == <<>>

IsSpace(c) == c \in {" ", "\t", CR, LF}

RECURSIVE LStrip(_)
LStrip(s) == IF s # <<>> /\ IsSpace(Head(s)) THEN LStrip(Tail(s)) ELSE s

RECURSIVE RStrip(_)
RStrip(s) ==
    IF s # <<>> /\ IsSpace(s[Len(s)]) THEN RStrip(SubSeq(s, 1, Len(s) - 1)) ELSE s

\* whether int(s) returns a number for the bytes s
IsInt(s) ==
    LET b == RStrip(LStrip(s))
        u == IF b # <<>> /\ Head(b) \in {"+", "-"} THEN Tail(b) ELSE b
    IN  u # <<>> /\ \A i \in 1..Len(u) : \E d \in 1..10 : u[i] = Digits[d]

\* the value of the digits u
RECURSIVE DigitsToNat(_)
DigitsToNat(u) ==
    IF u = <<>> THEN 0
    ELSE 10 * DigitsToNat(SubSeq(u, 1, Len(u) - 1))
         + (CHOOSE d \in 0..9 : Digits[d + 1] = u[Len(u)])

\* int(s), for bytes s such that IsInt(s)
ToInt(s) ==
    LET b == RStrip(LStrip(s))
    IN  IF Head(b) = "-" THEN 0 - DigitsToNat(Tail(b))
        ELSE IF Head(b) = "+" THEN DigitsToNat(Tail(b))
        ELSE DigitsToNat(b)

\* bytes.splitlines(): the lines of s, which end at "\r", "\n" or "\r\n"
RECURSIVE SplitLines(_)
SplitLines(s) ==
    LET I == {i \in 1..Len(s) : s[i] \in {CR, LF}}
        i == CHOOSE k \in I : \A j \in I : k <= j
        j == IF s[i] = CR /\ i < Len(s) /\ s[i + 1] = LF THEN i + 1 ELSE i
    IN  IF s = <<>> THEN <<>>
        ELSE IF I = {} THEN <<s>>
        ELSE <<SubSeq(s, 1, i - 1)>> \o SplitLines(SubSeq(s, j + 1, Len(s)))

\* bytes.split(sep): the parts of s between the occurrences of sep
RECURSIVE Split(_, _)
Split(s, sep) ==
    LET I == {i \in 1..(Len(s) - Len(sep) + 1) : SubSeq(s, i, i + Len(sep) - 1) = sep}
        i == CHOOSE k \in I : \A j \in I : k <= j
    IN  IF I = {} THEN <<s>>
        ELSE <<SubSeq(s, 1, i - 1)>> \o Split(SubSeq(s, i + Len(sep), Len(s)), sep)

KeySep == <<" ", "=", " ">>
SizeKey(name) == <<"S", "I", "Z", "E", "_">> \o name
StepsKey == <<"M", "I", "C", "R", "O", "S", "T", "E", "P", "S", "/",
              "M", "I", "C", "R", "O", "N">>

\* the lines of a description that _find_limits reads: those before b'END'
DescriptionLines(answer) ==
    LET lines == SplitLines(answer)
        E == {i \in 1..Len(lines) : lines[i] = <<"E", "N", "D">>}
    IN  IF E = {} THEN lines
        ELSE SubSeq(lines, 1, (CHOOSE k \in E : \A j \in E : k <= j) - 1)

\* description[key]: the value of the last line with that key, <<>> with
\* found false when there is none
Lookup(answer, key) ==
    LET lines == DescriptionLines(answer)
        K == {i \in 1..Len(lines) : Split(lines[i], KeySep)[1] = key}
    IN  IF K = {} THEN [found |-> FALSE, value |-> <<>>]
        ELSE [found |-> TRUE,
              value |-> Split(lines[CHOOSE k \in K : \A j \in K : j <= k], KeySep)[2]]

AllDigits(u) == u # <<>> /\ \A i \in 1..Len(u) : \E d \in 1..10 : u[i] = Digits[d]

\* re.search(b'^\d+(?= MM$)', value): whether it matches
SizeMatches(value) ==
    /\ EndsWith(value, <<" ", "M", "M">>)
    /\ AllDigits(SubSeq(value, 1, Len(value) - 3))

\* the exception the parsing of the description ends with, "none" if it
\* ends with the number of microsteps of the axis
ParseError(answer, name) ==
    LET lines == DescriptionLines(answer)
        size == Lookup(answer, SizeKey(name))
        steps == Lookup(answer, StepsKey)
    IN  IF \E i \in 1..Len(lines) : Len(Split(lines[i], KeySep)) # 2 THEN "ValueError"
        ELSE IF ~size.found THEN "KeyError"
        ELSE IF ~SizeMatches(size.value) THEN "RuntimeError"
        ELSE IF ~steps.found THEN "KeyError"
        ELSE IF ~IsInt(steps.value) THEN "ValueError"
        ELSE "none"

\* axis_microsteps = axis_length_micron * microsteps_per_micron
AxisMicrosteps(answer, name) ==
    LET size == Lookup(answer, SizeKey(name)).value
    IN  (DigitsToNat(SubSeq(size, 1, Len(size) - 3)) * 1000)
        * ToInt(Lookup(answer, StepsKey).value)

go_x(pos) == CmdGX(pos)
\* go_y sending the command of go_x
go_y_AsX(pos) == CmdGX(pos)

go_y(pos) == CmdGY(pos)

Axis(name) == [kind |-> "axis", name |-> name, number |-> 0]
Wheel(number) == [kind |-> "wheel", name |-> <<>>, number |-> number]
Stage == [kind |-> "stage", name |-> <<>>, number |-> 0]

\* a key that files every filter wheel under the label of the first
Label_First(number) == <<"f", "i", "l", "t", "e", "r", " ", "1">>

\* key = 'filter %d' % number
Label(number) == <<"f", "i", "l", "t", "e", "r", " ">> \o IntToBytes(number)
StageLabel == <<"s", "t", "a", "g", "e">>

\* an item of the dict self._devices
Entry(label, dev) == [label |-> label, dev |-> dev]

\* self._devices[key] = dev
SetItem(map, label, dev) == {e \in map : e.label # label} \cup {Entry(label, dev)}

\* has_filterwheel(number)
has_filterwheel(t) ==
    \/ /\ At(t, "has_filterwheel", "assert")
       /\ IF ~AssertFilterwheelNumber(Top(t).n)
          THEN /\ Raise(t, Error("AssertionError", <<>>, <<>>))
               /\ UNCHANGED stack
          ELSE /\ Call(t, "ret", Frame("_has_thing", "lock", CmdFilter(Top(t).n),
                                       FilterPrefix(Top(t).n), 0))
               /\ UNCHANGED exc
       /\ wire' = NoWire
       /\ UNCHANGED <<held, timeout, inbuf, inflight, old, conn, ret, cur, rest>>
    \/ /\ At(t, "has_filterwheel", "ret")
       /\ Return(t, ret[t], cur[t])
       /\ wire' = NoWire
       /\ UNCHANGED <<held, timeout, inbuf, inflight, old, conn, exc, rest>>

\* _ProScanIIIStageAxis.__init__(connection, name)
StageAxis_init(t) ==
    \/ /\ At(t, "StageAxis.__init__", "check")
       /\ IF ~ValidAxisName(Top(t).exp)
          THEN /\ Raise(t, Error("ValueError", <<>>, <<>>))
               /\ UNCHANGED stack
          ELSE /\ Goto(t, "encoder")
               /\ UNCHANGED exc
       /\ limits' = IF ValidAxisName(Top(t).exp)
                    THEN [limits EXCEPT ![Top(t).exp] = NoLimits] ELSE limits
       /\ wire' = NoWire
       /\ UNCHANGED <<others, held, timeout, inbuf, inflight, old, conn, ret, cur, devices, calls, runs,
                      _devices>>
    \/ /\ At(t, "StageAxis.__init__", "encoder")
       /\ IF ~AssertAxisName(Top(t).exp)
          THEN /\ Raise(t, Error("AssertionError", <<>>, <<>>))
               /\ UNCHANGED stack
          ELSE /\ Call(t, "servo", Frame("set_command", "call",
                                         CmdEnable(ENCODER, Top(t).exp, TRUE), <<>>, 0))
               /\ UNCHANGED exc
       /\ wire' = NoWire
       /\ UNCHANGED <<held, timeout, inbuf, inflight, old, conn, ret, cur, rest>>
    \/ /\ At(t, "StageAxis.__init__", "servo")
       /\ IF ~AssertAxisName(Top(t).exp)
          THEN /\ Raise(t, Error("AssertionError", <<>>, <<>>))
               /\ UNCHANGED stack
          ELSE /\ Call(t, "ret", Frame("set_command", "call",
                                       CmdEnable(SERVO, Top(t).exp, FALSE), <<>>, 0))
               /\ UNCHANGED exc
       /\ wire' = NoWire
       /\ UNCHANGED <<held, timeout, inbuf, inflight, old, conn, ret, cur, rest>>
    \/ /\ At(t, "StageAxis.__init__", "ret")
       /\ devices' = devices \cup {Axis(Top(t).exp)}
       /\ Return(t, NoRet, cur[t])
       /\ wire' = NoWire
       /\ UNCHANGED <<others, held, timeout, inbuf, inflight, old, conn, exc, calls, limits, runs,
                      _devices>>

\* _ProScanIIIFilterWheel.__init__(connection, number), with the call of
\* get_n_filter_positions it makes
FilterWheel_init(t) ==
    \/ /\ At(t, "FilterWheel.__init__", "assert")
       /\ IF ~AssertFilterwheelNumber(Top(t).n)
          THEN /\ Raise(t, Error("AssertionError", <<>>, <<>>))
               /\ UNCHANGED stack
          ELSE /\ Call(t, "parse", Frame("get_command", "lock", CmdFPW(Top(t).n), <<>>, 0))
               /\ UNCHANGED exc
       /\ wire' = NoWire
       /\ UNCHANGED <<held, timeout, inbuf, inflight, old, conn, ret, cur, rest>>
    \/ /\ At(t, "FilterWheel.__init__", "parse")
       /\ ~IsInt(ret[t].bytes)
       /\ Raise(t, Error("ValueError", <<>>, ret[t].bytes))
       /\ wire' = NoWire
       /\ UNCHANGED <<held, timeout, inbuf, inflight, old, conn, stack, ret, cur, rest>>
    \/ /\ At(t, "FilterWheel.__init__", "parse")
       /\ IsInt(ret[t].bytes)
       /\ devices' = devices \cup {Wheel(Top(t).n)}
       /\ Return(t, NoRet, cur[t])
       /\ wire' = NoWire
       /\ UNCHANGED <<others, held, timeout, inbuf, inflight, old, conn, exc, calls, limits, runs,
                      _devices>>

\* _ProScanIIIStageAxis.move_to(pos), with the go_x or go_y it calls
move_to(t) ==
    \/ /\ At(t, "move_to", "call")
       /\ IF Top(t).exp = <<"X">>
          THEN /\ Call(t, "ret", Frame("move_command", "arg", go_x(Top(t).n), <<>>, 0))
               /\ UNCHANGED exc
          ELSE IF Top(t).exp = <<"Y">>
          THEN /\ Call(t, "ret", Frame("move_command", "arg", go_y(Top(t).n), <<>>, 0))
               /\ UNCHANGED exc
          ELSE /\ Raise(t, Error("RuntimeError", <<>>, <<>>))
               /\ UNCHANGED stack
       /\ wire' = NoWire
       /\ UNCHANGED <<held, timeout, inbuf, inflight, old, conn, ret, cur, rest>>
    \/ /\ At(t, "move_to", "ret")
       /\ Return(t, NoRet, cur[t])
       /\ wire' = NoWire
       /\ UNCHANGED <<held, timeout, inbuf, inflight, old, conn, exc, rest>>

\* get_filter_position(number)
get_filter_position(t) ==
    \/ /\ At(t, "get_filter_position", "assert")
       /\ IF ~AssertFilterwheelNumber(Top(t).dev.number)
          THEN /\ Raise(t, Error("AssertionError", <<>>, <<>>))
               /\ UNCHANGED stack
          ELSE /\ Call(t, "parse", Frame("get_command", "lock",
                                         CmdGetFilter(Top(t).dev.number), <<>>, 0))
               /\ UNCHANGED exc
       /\ wire' = NoWire
       /\ UNCHANGED <<held, timeout, inbuf, inflight, old, conn, ret, cur, rest>>
    \/ /\ At(t, "get_filter_position", "parse")
       /\ ~IsInt(ret[t].bytes)
       /\ Raise(t, Error("ValueError", <<>>, ret[t].bytes))
       /\ wire' = NoWire
       /\ UNCHANGED <<held, timeout, inbuf, inflight, old, conn, stack, ret, cur, rest>>
    \/ /\ At(t, "get_filter_position", "parse")
       /\ IsInt(ret[t].bytes)
       /\ Return(t, Number(ToInt(ret[t].bytes)), cur[t])
       /\ wire' = NoWire
       /\ UNCHANGED <<held, timeout, inbuf, inflight, old, conn, exc, rest>>

\* set_filter_position(number, pos)
set_filter_position(t) ==
    \/ /\ At(t, "set_filter_position", "assert")
       /\ IF ~AssertFilterwheelNumber(Top(t).dev.number)
          THEN /\ Raise(t, Error("AssertionError", <<>>, <<>>))
               /\ UNCHANGED stack
          ELSE /\ Call(t, "ret", Frame("move_command", "arg",
                                       CmdSetFilter(Top(t).dev.number, Top(t).n),
                                       <<>>, 0))
               /\ UNCHANGED exc
       /\ wire' = NoWire
       /\ UNCHANGED <<held, timeout, inbuf, inflight, old, conn, ret, cur, rest>>
    \/ /\ At(t, "set_filter_position", "ret")
       /\ Return(t, NoRet, cur[t])
       /\ wire' = NoWire
       /\ UNCHANGED <<held, timeout, inbuf, inflight, old, conn, exc, rest>>

-----------------------------------------------------------------------------
(* _ProScanIIIStageAxis: positions, moves and limits *)

HexDigits == <<"0", "1", "2", "3", "4", "5", "6", "7", "8", "9",
               "A", "B", "C", "D", "E", "F">>
LowerHexDigits == <<"0", "1", "2", "3", "4", "5", "6", "7", "8", "9",
                    "a", "b", "c", "d", "e", "f">>

IsHexDigit(c) == \E d \in 1..16 : c \in {HexDigits[d], LowerHexDigits[d]}

RECURSIVE HexToNat(_)
HexToNat(u) ==
    IF u = <<>> THEN 0
    ELSE 16 * HexToNat(SubSeq(u, 1, Len(u) - 1))
         + (CHOOSE d \in 0..15 : u[Len(u)] \in {HexDigits[d + 1], LowerHexDigits[d + 1]})

\* the digits of int(s, 16): s without blanks, sign and 0x prefix
HexBody(s) ==
    LET b == RStrip(LStrip(s))
        u == IF b # <<>> /\ Head(b) \in {"+", "-"} THEN Tail(b) ELSE b
    IN  IF Len(u) >= 2 /\ u[1] = "0" /\ u[2] \in {"x", "X"} THEN SubSeq(u, 3, Len(u)) ELSE u

\* whether int(s, 16) returns a number
IsHex(s) == HexBody(s) # <<>> /\ \A i \in 1..Len(HexBody(s)) : IsHexDigit(HexBody(s)[i])

\* int(s, 16), for bytes s such that IsHex(s)
ToHex(s) ==
    IF Head(LStrip(s)) = "-" THEN 0 - HexToNat(HexBody(s)) ELSE HexToNat(HexBody(s))

RECURSIVE BinDigits(_)
BinDigits(n) ==
    IF n < 2 THEN <<Digits[n + 1]>>
    ELSE BinDigits(n \div 2) \o <<Digits[(n % 2) + 1]>>

\* bin(n)[2:].zfill(8)
BinString(n) ==
    LET b == IF n < 0 THEN <<"b">> \o BinDigits(0 - n) ELSE BinDigits(n)
    IN  [i \in 1..(8 - Len(b)) |-> "0"] \o b

\* an offset that is the same for both limits of an axis
LimitOffset_NoSign(axis, sign) ==
    IF axis = <<"X">> THEN 7 ELSE IF axis = <<"Y">> THEN 5
    ELSE IF axis = <<"Z">> THEN 3 ELSE 1

\* base_offset[axis], less one for the lower limit
LimitOffset(axis, sign) ==
    (IF axis = <<"X">> THEN 7 ELSE IF axis = <<"Y">> THEN 5
     ELSE IF axis = <<"Z">> THEN 3 ELSE 1) - (IF sign = -1 THEN 1 ELSE 0)

\* a test that takes every switch for active
LimitActive_Always(n, axis, sign) == TRUE

\* limits[offset] == '1'
LimitActive(n, axis, sign) == BinString(n)[LimitOffset(axis, sign) + 1] = "1"

\* is_limit_switch_active(axis, sign)
is_limit_switch_active(t) ==
    \/ /\ At(t, "is_limit_switch_active", "sign")
       /\ IF Top(t).n \notin {-1, 1}
          THEN /\ Raise(t, Error("ValueError", <<>>, <<>>))
               /\ UNCHANGED stack
          ELSE /\ Call(t, "parse", Frame("get_command", "lock", CmdLMT, <<>>, 0))
               /\ UNCHANGED exc
       /\ wire' = NoWire
       /\ UNCHANGED <<held, timeout, inbuf, inflight, old, conn, ret, cur, rest>>
    \/ /\ At(t, "is_limit_switch_active", "parse")
       /\ ~IsHex(ret[t].bytes)
       /\ Raise(t, Error("ValueError", CmdLMT, ret[t].bytes))
       /\ wire' = NoWire
       /\ UNCHANGED <<held, timeout, inbuf, inflight, old, conn, stack, ret, cur, rest>>
    \/ /\ At(t, "is_limit_switch_active", "parse")
       /\ IsHex(ret[t].bytes)
       /\ Return(t, Bool(LimitActive(ToHex(ret[t].bytes), Top(t).exp, Top(t).n)), cur[t])
       /\ wire' = NoWire
       /\ UNCHANGED <<held, timeout, inbuf, inflight, old, conn, exc, rest>>

\* _ProScanIIIStageAxis.position, with the absolute_x_position or
\* absolute_y_position it calls
position(t) ==
    \/ /\ At(t, "position", "call")
       /\ IF Top(t).dev.name = <<"X">>
          THEN /\ Call(t, "parse", Frame("get_command", "lock", CmdPX, <<>>, 0))
               /\ UNCHANGED exc
          ELSE IF Top(t).dev.name = <<"Y">>
          THEN /\ Call(t, "parse", Frame("get_command", "lock", CmdPY, <<>>, 0))
               /\ UNCHANGED exc
          ELSE /\ Raise(t, Error("ValueError", <<>>, <<>>))
               /\ UNCHANGED stack
       /\ wire' = NoWire
       /\ UNCHANGED <<held, timeout, inbuf, inflight, old, conn, ret, cur, rest>>
    \/ /\ At(t, "position", "parse")
       /\ ~IsInt(ret[t].bytes)
       /\ Raise(t, Error("ValueError", <<>>, ret[t].bytes))
       /\ wire' = NoWire
       /\ UNCHANGED <<held, timeout, inbuf, inflight, old, conn, stack, ret, cur, rest>>
    \/ /\ At(t, "position", "parse")
       /\ IsInt(ret[t].bytes)
       /\ Return(t, Number(ToInt(ret[t].bytes)), cur[t])
       /\ wire' = NoWire
       /\ UNCHANGED <<held, timeout, inbuf, inflight, old, conn, exc, rest>>

\* _ProScanIIIStageAxis.move_by(delta), with the go_relative it calls
move_by(t) ==
    \/ /\ At(t, "move_by", "call")
       /\ IF Top(t).dev.name = <<"X">>
          THEN /\ Call(t, "ret", Frame("move_command", "arg",
                                       CmdGR(Top(t).n, 0, 0), <<>>, 0))
               /\ UNCHANGED exc
          ELSE IF Top(t).dev.name = <<"Y">>
          THEN /\ Call(t, "ret", Frame("move_command", "arg",
                                       CmdGR(0, Top(t).n, 0), <<>>, 0))
               /\ UNCHANGED exc
          ELSE /\ Raise(t, Error("RuntimeError", <<>>, <<>>))
               /\ UNCHANGED stack
       /\ wire' = NoWire
       /\ UNCHANGED <<held, timeout, inbuf, inflight, old, conn, ret, cur, rest>>
    \/ /\ At(t, "move_by", "ret")
       /\ Return(t, NoRet, cur[t])
       /\ wire' = NoWire
       /\ UNCHANGED <<held, timeout, inbuf, inflight, old, conn, exc, rest>>

\* math.copysign(axis_microsteps * 2, sign)
Overshoot(axis_microsteps, sign) ==
    IF sign < 0 THEN 0 - (axis_microsteps * 2) ELSE axis_microsteps * 2

\* _get_limit(sign), of _find_limits
_get_limit(t) ==
    \/ /\ At(t, "_get_limit", "move")
       /\ Call(t, "switch", [Frame("move_by", "call", <<>>, <<>>,
                                   Overshoot(Top(t).new, Top(t).n))
                             EXCEPT !.dev = Top(t).dev])
       /\ wire' = NoWire
       /\ UNCHANGED <<held, timeout, inbuf, inflight, old, conn, ret, exc, cur, rest>>
    \/ /\ At(t, "_get_limit", "switch")
       /\ Call(t, "test", Frame("is_limit_switch_active", "sign", <<>>,
                                Top(t).dev.name, Top(t).n))
       /\ wire' = NoWire
       /\ UNCHANGED <<held, timeout, inbuf, inflight, old, conn, ret, exc, cur, rest>>
    \/ /\ At(t, "_get_limit", "test")
       /\ IF ~ret[t].bool
          THEN /\ Raise(t, Error("RuntimeError", <<>>, <<>>))
               /\ UNCHANGED stack
          ELSE /\ Call(t, "ret", [Frame("position", "call", <<>>, <<>>, 0)
                                  EXCEPT !.dev = Top(t).dev])
               /\ UNCHANGED exc
       /\ wire' = NoWire
       /\ UNCHANGED <<held, timeout, inbuf, inflight, old, conn, ret, cur, rest>>
    \/ /\ At(t, "_get_limit", "ret")
       /\ Return(t, ret[t], cur[t])
       /\ wire' = NoWire
       /\ UNCHANGED <<held, timeout, inbuf, inflight, old, conn, exc, rest>>

\* a pair with the upper limit first
AxisLimits_Swapped(lower, upper) == <<upper, lower>>

\* microscope.devices.AxisLimits(lower_limit, upper_limit)
AxisLimits(lower, upper) == <<lower, upper>>

\* _find_limits(); the frame keeps axis_microsteps in new, and the frame of
\* _get_limit, which reads it from the enclosing call, has a copy of it
_find_limits(t) ==
    \/ /\ At(t, "_find_limits", "desc")
       /\ Call(t, "parse", Frame("get_description", "lock", CmdStage, <<>>, 0))
       /\ wire' = NoWire
       /\ UNCHANGED <<held, timeout, inbuf, inflight, old, conn, ret, exc, cur, rest>>
    \/ /\ At(t, "_find_limits", "parse")
       /\ IF ParseError(ret[t].bytes, Top(t).dev.name) # "none"
          THEN /\ Raise(t, Error(ParseError(ret[t].bytes, Top(t).dev.name),
                                 <<>>, ret[t].bytes))
               /\ UNCHANGED stack
          ELSE /\ Becomes(t, [Top(t) EXCEPT
                                 !.pc = "initial",
                                 !.new = AxisMicrosteps(ret[t].bytes, Top(t).dev.name)])
               /\ UNCHANGED exc
       /\ wire' = NoWire
       /\ UNCHANGED <<held, timeout, inbuf, inflight, old, conn, ret, cur, rest>>
    \/ /\ At(t, "_find_limits", "initial")
       /\ Call(t, "lower", [Frame("position", "call", <<>>, <<>>, 0)
                            EXCEPT !.dev = Top(t).dev])
       /\ wire' = NoWire
       /\ UNCHANGED <<held, timeout, inbuf, inflight, old, conn, ret, exc, cur, rest>>
    \/ /\ At(t, "_find_limits", "lower")
       /\ stack' = [stack EXCEPT ![t] =
                      Append([@ EXCEPT ![Len(@)].pc = "upper",
                                       ![Len(@)].initial = ret[t].int],
                             [Frame("_get_limit", "move", <<>>, <<>>, -1)
                              EXCEPT !.dev = Top(t).dev, !.new = Top(t).new])]
       /\ runs' = [runs EXCEPT ![Top(t).dev.name] = @ + 1]
       /\ wire' = NoWire
       /\ UNCHANGED <<others, held, timeout, inbuf, inflight, old, conn, ret, exc, cur,
                      devices, calls, limits, _devices>>
    \/ /\ At(t, "_find_limits", "upper")
       /\ stack' = [stack EXCEPT ![t] =
                      Append([@ EXCEPT ![Len(@)].pc = "back",
                                       ![Len(@)].lower = ret[t].int],
                             [Frame("_get_limit", "move", <<>>, <<>>, 1)
                              EXCEPT !.dev = Top(t).dev, !.new = Top(t).new])]
       /\ wire' = NoWire
       /\ UNCHANGED <<held, timeout, inbuf, inflight, old, conn, ret, exc, cur, rest>>
    \/ /\ At(t, "_find_limits", "back")
       /\ stack' = [stack EXCEPT ![t] =
                      Append([@ EXCEPT ![Len(@)].pc = "ret",
                                       ![Len(@)].upper = ret[t].int],
                             Frame("move_to", "call", <<>>, Top(t).dev.name,
                                   Top(t).initial))]
       /\ wire' = NoWire
       /\ UNCHANGED <<held, timeout, inbuf, inflight, old, conn, ret, exc, cur, rest>>
    \/ /\ At(t, "_find_limits", "ret")
       /\ Return(t, Pair(AxisLimits(Top(t).lower, Top(t).upper)),
                 [cur[t] EXCEPT !.pair = AxisLimits(Top(t).lower, Top(t).upper)])
       /\ wire' = NoWire
       /\ UNCHANGED <<held, timeout, inbuf, inflight, old, conn, exc, rest>>

\* a test that never finds the limits
IsNone_Never(l) == FALSE

\* a test that always finds the limits missing
IsNone_Always(l) == TRUE

\* self._limits is None
IsNone(l) == l = NoLimits

\* _do_enable()
_do_enable(t) ==
    \/ /\ At(t, "_do_enable", "test")
       /\ IsNone(limits[Top(t).dev.name])
       /\ Call(t, "assign", [Frame("_find_limits", "desc", <<>>, <<>>, 0)
                             EXCEPT !.dev = Top(t).dev])
       /\ wire' = NoWire
       /\ UNCHANGED <<held, timeout, inbuf, inflight, old, conn, ret, exc, cur, rest>>
    \/ /\ At(t, "_do_enable", "test")
       /\ ~IsNone(limits[Top(t).dev.name])
       /\ Return(t, NoRet, cur[t])
       /\ wire' = NoWire
       /\ UNCHANGED <<held, timeout, inbuf, inflight, old, conn, exc, rest>>
    \/ /\ At(t, "_do_enable", "assign")
       /\ limits' = [limits EXCEPT ![Top(t).dev.name] = ret[t].pair]
       /\ Return(t, NoRet, cur[t])
       /\ wire' = NoWire
       /\ UNCHANGED <<others, held, timeout, inbuf, inflight, old, conn, exc, devices, calls, runs,
                      _devices>>

\* _ProScanIIIStageAxis.limits
Limits(t) ==
    \/ /\ At(t, "limits", "test")
       /\ IsNone(limits[Top(t).dev.name])
       /\ Raise(t, Error("RuntimeError", <<>>, <<>>))
       /\ wire' = NoWire
       /\ UNCHANGED <<held, timeout, inbuf, inflight, old, conn, stack, ret, cur, rest>>
    \/ /\ At(t, "limits", "test")
       /\ ~IsNone(limits[Top(t).dev.name])
       /\ Return(t, Pair(limits[Top(t).dev.name]), cur[t])
       /\ wire' = NoWire
       /\ UNCHANGED <<held, timeout, inbuf, inflight, old, conn, exc, rest>>

-----------------------------------------------------------------------------
(* ProScanIII: the controller and its devices *)

\* _ProScanIIIStage.__init__(connection)
Stage_init(t) ==
    \/ /\ At(t, "Stage.__init__", "x")
       /\ Call(t, "y", Frame("StageAxis.__init__", "check", <<>>, <<"X">>, 0))
       /\ wire' = NoWire
       /\ UNCHANGED <<held, timeout, inbuf, inflight, old, conn, ret, exc, cur, rest>>
    \/ /\ At(t, "Stage.__init__", "y")
       /\ Call(t, "ret", Frame("StageAxis.__init__", "check", <<>>, <<"Y">>, 0))
       /\ wire' = NoWire
       /\ UNCHANGED <<held, timeout, inbuf, inflight, old, conn, ret, exc, cur, rest>>
    \/ /\ At(t, "Stage.__init__", "ret")
       /\ Return(t, NoRet, cur[t])
       /\ wire' = NoWire
       /\ UNCHANGED <<held, timeout, inbuf, inflight, old, conn, exc, rest>>

\* ProScanIII.__init__(port, baudrate, timeout)
ProScanIII_init(t) ==
    \/ /\ At(t, "ProScanIII.__init__", "conn")
       /\ Call(t, "dict", Frame("__init__", "lock", <<>>, <<>>, 0))
       /\ wire' = NoWire
       /\ UNCHANGED <<held, timeout, inbuf, inflight, old, conn, ret, exc, cur, rest>>
    \/ /\ At(t, "ProScanIII.__init__", "dict")
       /\ _devices' = {}
       /\ Becomes(t, [Top(t) EXCEPT !.pc = "probe", !.n = 1])
       /\ wire' = NoWire
       /\ UNCHANGED <<others, held, timeout, inbuf, inflight, old, conn, ret, exc, cur,
                      devices, calls, limits, runs>>
    \/ /\ At(t, "ProScanIII.__init__", "probe")
       /\ IF Top(t).n < 4
          THEN Call(t, "wheel", Frame("has_filterwheel", "assert", <<>>, <<>>, Top(t).n))
          ELSE Goto(t, "stage_probe")
       /\ wire' = NoWire
       /\ UNCHANGED <<held, timeout, inbuf, inflight, old, conn, ret, exc, cur, rest>>
    \/ /\ At(t, "ProScanIII.__init__", "wheel")
       /\ IF ret[t].bool
          THEN Call(t, "add", Frame("FilterWheel.__init__", "assert", <<>>, <<>>, Top(t).n))
          ELSE Becomes(t, [Top(t) EXCEPT !.pc = "probe", !.n = @ + 1])
       /\ wire' = NoWire
       /\ UNCHANGED <<held, timeout, inbuf, inflight, old, conn, ret, exc, cur, rest>>
    \/ /\ At(t, "ProScanIII.__init__", "add")
       /\ _devices' = SetItem(_devices, Label(Top(t).n), Wheel(Top(t).n))
       /\ Becomes(t, [Top(t) EXCEPT !.pc = "probe", !.n = @ + 1])
       /\ wire' = NoWire
       /\ UNCHANGED <<others, held, timeout, inbuf, inflight, old, conn, ret, exc, cur,
                      devices, calls, limits, runs>>
    \/ /\ At(t, "ProScanIII.__init__", "stage_probe")
       /\ Call(t, "stage", Frame("has_stage", "call", <<>>, <<>>, 0))
       /\ wire' = NoWire
       /\ UNCHANGED <<held, timeout, inbuf, inflight, old, conn, ret, exc, cur, rest>>
    \/ /\ At(t, "ProScanIII.__init__", "stage")
       /\ IF ret[t].bool
          THEN Call(t, "add_stage", Frame("Stage.__init__", "x", <<>>, <<>>, 0))
          ELSE Goto(t, "ret")
       /\ wire' = NoWire
       /\ UNCHANGED <<held, timeout, inbuf, inflight, old, conn, ret, exc, cur, rest>>
    \/ /\ At(t, "ProScanIII.__init__", "add_stage")
       /\ _devices' = SetItem(_devices, StageLabel, Stage)
       /\ Goto(t, "ret")
       /\ wire' = NoWire
       /\ UNCHANGED <<others, held, timeout, inbuf, inflight, old, conn, ret, exc, cur,
                      devices, calls, limits, runs>>
    \/ /\ At(t, "ProScanIII.__init__", "ret")
       /\ Return(t, NoRet, cur[t])
       /\ wire' = NoWire
       /\ UNCHANGED <<held, timeout, inbuf, inflight, old, conn, exc, rest>>

\* a devices property that hands the map out and leaves the controller
\* without it
Devices_Clears(t) ==
    /\ At(t, "devices", "ret")
    /\ Return(t, Mapping(_devices), cur[t])
    /\ _devices' = {}
    /\ wire' = NoWire
    /\ UNCHANGED <<others, held, timeout, inbuf, inflight, old, conn, exc, devices, calls, limits, runs>>

\* ProScanIII.devices
Devices(t) ==
    /\ At(t, "devices", "ret")
    /\ Return(t, Mapping(_devices), cur[t])
    /\ wire' = NoWire
    /\ UNCHANGED <<held, timeout, inbuf, inflight, old, conn, exc, rest>>

-----------------------------------------------------------------------------
(* The callers *)

AxisNames == {<<"X">>, <<"Y">>, <<"Z">>, <<"x">>, <<"X", "Y">>, <<>>}
WheelNumbers == -1..(MaxWheel + 1)
Positions == (-MaxPos..MaxPos) \cup {10 * MaxPos + 2}
ScopeTimeouts == {1, MoveTimeout(DefaultTimeout)}

\* a thread that is in no call calls the method of frame f
Start(t, name, f) ==
    /\ conn = "ok"
    /\ stack[t] = <<>>
    /\ calls < MaxCalls
    /\ calls' = calls + 1
    /\ stack' = [stack EXCEPT ![t] = <<f>>]
    /\ cur' = [cur EXCEPT ![t] = [Idle EXCEPT !.name = name, !.status = "running",
                                              !.arg = f.exp, !.n = f.n,
                                              !.dev = f.dev]]
    /\ exc' = [exc EXCEPT ![t] = NoExc]
    /\ ret' = [ret EXCEPT ![t] = NoRet]
    /\ wire' = NoWire
    /\ UNCHANGED <<others, held, timeout, inbuf, inflight, old, conn, devices, limits, runs, _devices>>

\* ProScanIII.__init__ builds the connection
Construct ==
    /\ conn = "new"
    /\ conn' = "building"
    /\ stack' = [stack EXCEPT ![MainThread] = <<Frame("__init__", "lock", <<>>, <<>>, 0)>>]
    /\ cur' = [cur EXCEPT ![MainThread] =
                 [Idle EXCEPT !.name = "__init__", !.status = "running"]]
    /\ wire' = NoWire
    /\ UNCHANGED <<held, timeout, inbuf, inflight, old, ret, exc, rest>>

CallGetCommand(t) == Start(t, "get_command", Frame("get_command", "lock", CmdPX, <<>>, 0))

CallSetCommand(t) ==
    Start(t, "set_command",
          Frame("set_command", "call", CmdEnable(SERVO, <<"X">>, FALSE), <<>>, 0))

CallMoveCommand(t) ==
    Start(t, "move_command", Frame("move_command", "arg", CmdGX(1), <<>>, 0))

CallGetDescription(t) ==
    Start(t, "get_description", Frame("get_description", "lock", CmdStage, <<>>, 0))

CallHasStage(t) == Start(t, "has_stage", Frame("has_stage", "call", <<>>, <<>>, 0))

CallHasFilterwheel(t) ==
    \E number \in WheelNumbers :
        Start(t, "has_filterwheel", Frame("has_filterwheel", "assert", <<>>, <<>>, number))

NewStageAxis(t) ==
    \E name \in AxisNames :
        Start(t, "StageAxis.__init__", Frame("StageAxis.__init__", "check", <<>>, name, 0))

NewFilterWheel(t) ==
    \E number \in WheelNumbers :
        Start(t, "FilterWheel.__init__",
              Frame("FilterWheel.__init__", "assert", <<>>, <<>>, number))

CallMoveTo(t) ==
    \E d \in devices, pos \in Positions :
        /\ d.kind = "axis"
        /\ Start(t, "move_to", Frame("move_to", "call", <<>>, d.name, pos))

\* _ProScanIIIFilterWheel.get_position()
CallGetPosition(t) ==
    \E d \in devices :
        /\ d.kind = "wheel"
        /\ Start(t, "get_position",
                 [Frame("get_filter_position", "assert", <<>>, <<>>, 0) EXCEPT !.dev = d])

\* _ProScanIIIFilterWheel.set_position(position)
CallSetPosition(t) ==
    \E d \in devices, pos \in Positions :
        /\ d.kind = "wheel"
        /\ Start(t, "set_position",
                 [Frame("set_filter_position", "assert", <<>>, <<>>, pos) EXCEPT !.dev = d])

\* the calls made on an axis of the stage
OnAxis(t, name, proc, pc, n) ==
    \E d \in devices :
        /\ d.kind = "axis"
        /\ Start(t, name, [Frame(proc, pc, <<>>, d.name, n) EXCEPT !.dev = d])

CallEnable(t) == OnAxis(t, "enable", "_do_enable", "test", 0)

CallLimits(t) == OnAxis(t, "limits", "limits", "test", 0)

CallPosition(t) == OnAxis(t, "position", "position", "call", 0)

CallMoveBy(t) == OnAxis(t, "move_by", "move_by", "call", MaxPos)

CallAxisMoveTo(t) == OnAxis(t, "move_to", "move_to", "call", MaxPos)

CallDevices(t) == Start(t, "devices", Frame("devices", "ret", <<>>, <<>>, 0))

\* ProScanIII(port) is constructed
ConstructController ==
    /\ conn = "new"
    /\ conn' = "building"
    /\ stack' = [stack EXCEPT ![MainThread] =
                   <<Frame("ProScanIII.__init__", "conn", <<>>, <<>>, 0)>>]
    /\ cur' = [cur EXCEPT ![MainThread] =
                 [Idle EXCEPT !.name = "ProScanIII.__init__", !.status = "running"]]
    /\ wire' = NoWire
    /\ UNCHANGED <<held, timeout, inbuf, inflight, old, ret, exc, rest>>

\* with connection.changed_timeout(new_timeout): the block of a caller, which
\* opens another scope (the main thread's only), ends, returns or raises
EnterScope(t) ==
    \E new \in ScopeTimeouts :
        Start(t, "scope", [Frame("scope", "ct_prev", <<>>, <<>>, 0) EXCEPT !.new = new])

scope(t) ==
    \/ /\ At(t, "scope", "body")
       /\ Len(stack[t]) < (IF t = MainThread THEN MaxNest ELSE 1)
       /\ \E new \in ScopeTimeouts :
            Call(t, "body", [Frame("scope", "ct_prev", <<>>, <<>>, 0) EXCEPT !.new = new])
       /\ cur' = [cur EXCEPT ![t].n = Len(stack[t]) + 1]
       /\ wire' = NoWire
       /\ UNCHANGED <<held, timeout, inbuf, inflight, old, conn, ret, exc, rest>>
    \/ /\ At(t, "scope", "body")
       /\ Goto(t, "ct_finally")
       /\ wire' = NoWire
       /\ UNCHANGED <<held, timeout, inbuf, inflight, old, conn, ret, exc, cur, rest>>
    \/ /\ At(t, "scope", "body")
       /\ \E kind \in {"return", "RuntimeError"} : Raise(t, Error(kind, <<>>, <<>>))
       /\ wire' = NoWire
       /\ UNCHANGED <<held, timeout, inbuf, inflight, old, conn, stack, ret, cur, rest>>

-----------------------------------------------------------------------------
(* ThorlabsNanoMax and MockLibueye before anything is called *)

\* the channels a status can be asked for: those of the stage and the one
\* after the last
Channels == 1..4

\* no channel has been told to home, and none reports anything
NoTMC == [bound |-> FALSE, bits |-> [c \in Channels |-> 0]]

NanoMaxIdle ==
    [pc |-> "idle", channel_nr |-> 0, channels_not_homed |-> {}, todo |-> <<>>,
     channel |-> 0, status |-> 0, read |-> 0, exc |-> "none"]

\* the camera objects that are plugged
Cameras == {"a", "b"}

NoCall == [op |-> "none", arg |-> 0, hWnd |-> FALSE, ret |-> 0, handle |-> 0,
           exc |-> "none",
           before |-> [c \in Cameras |-> "closed"], ids |-> <<>>]

\* _id_to_camera = {}: ids[i] is the camera of device id i
NoCameras == [ids |-> <<>>, mode |-> [c \in Cameras |-> "closed"], last |-> NoCall]

-----------------------------------------------------------------------------
(* Specifications *)

Init ==
    /\ held = [t \in Threads |-> 0]
    /\ timeout = DefaultTimeout
    /\ inbuf = <<>>
    /\ inflight = <<>>
    /\ old = NoOld
    /\ tmc = NoTMC
    /\ nanomax = NanoMaxIdle
    /\ ueye = NoCameras
    /\ wire = NoWire
    /\ conn = "new"
    /\ stack = [t \in Threads |-> <<>>]
    /\ ret = [t \in Threads |-> NoRet]
    /\ exc = [t \in Threads |-> NoExc]
    /\ cur = [t \in Threads |-> Idle]
    /\ devices = {}
    /\ calls = 0
    /\ limits = [name \in StageAxes |-> NoLimits]
    /\ runs = [name \in StageAxes |-> 0]
    /\ _devices = {}

\* the steps of the connection's own methods
Engine(t) ==
    \/ command(t)
    \/ readline(t)
    \/ read_until_timeout(t)
    \/ get_command(t)
    \/ _command_and_validate(t)
    \/ changed_timeout(t)
    \/ move_command(t)
    \/ set_command(t)
    \/ Unwind(t)

Probes(t) ==
    \/ get_description(t)
    \/ _has_thing(t)
    \/ has_stage(t)

\* threads sharing one connection, from its construction on
Next ==
    \/ Construct
    \/ Arrive
    \/ \E t \in Threads :
        \/ Connection_init(t)
        \/ Engine(t)
        \/ Probes(t)
        \/ CallGetCommand(t)
        \/ CallSetCommand(t)
        \/ CallMoveCommand(t)
        \/ CallGetDescription(t)
        \/ CallHasStage(t)

Spec == Init /\ [][Next]_vars

\* a step of a method of the connection that thread t is in
Step(t) == Connection_init(t) \/ Engine(t) \/ Probes(t)

\* the same threads, each of which goes on whenever it can: a thread that is
\* not waiting for the lock is runnable, and one that waits takes the lock
\* once it stays free
SpecLive == Spec /\ \A t \in Threads : WF_vars(Step(t))

\* one thread building adapters on a connection and using them
InitConnected ==
    /\ held = [t \in Threads |-> 0]
    /\ timeout = DefaultTimeout
    /\ inbuf = <<>>
    /\ inflight = <<>>
    /\ old = NoOld
    /\ tmc = NoTMC
    /\ nanomax = NanoMaxIdle
    /\ ueye = NoCameras
    /\ wire = NoWire
    /\ conn = "ok"
    /\ stack = [t \in Threads |-> <<>>]
    /\ ret = [t \in Threads |-> NoRet]
    /\ exc = [t \in Threads |-> NoExc]
    /\ cur = [t \in Threads |-> Idle]
    /\ devices = {}
    /\ calls = 0
    /\ limits = [name \in StageAxes |-> NoLimits]
    /\ runs = [name \in StageAxes |-> 0]
    /\ _devices = {}

NextAdapters ==
    \/ Arrive
    \/ Engine(MainThread)
    \/ Probes(MainThread)
    \/ has_filterwheel(MainThread)
    \/ StageAxis_init(MainThread)
    \/ FilterWheel_init(MainThread)
    \/ move_to(MainThread)
    \/ CallHasStage(MainThread)
    \/ CallHasFilterwheel(MainThread)
    \/ NewStageAxis(MainThread)
    \/ NewFilterWheel(MainThread)
    \/ CallMoveTo(MainThread)

SpecAdapters == InitConnected /\ [][NextAdapters]_vars

\* one thread building filter wheels and using them
NextWheel ==
    \/ Arrive
    \/ command(MainThread)
    \/ readline(MainThread)
    \/ read_until_timeout(MainThread)
    \/ get_command(MainThread)
    \/ _command_and_validate(MainThread)
    \/ changed_timeout(MainThread)
    \/ move_command(MainThread)
    \/ Unwind(MainThread)
    \/ FilterWheel_init(MainThread)
    \/ get_filter_position(MainThread)
    \/ set_filter_position(MainThread)
    \/ NewFilterWheel(MainThread)
    \/ CallGetPosition(MainThread)
    \/ CallSetPosition(MainThread)

SpecWheel == InitConnected /\ [][NextWheel]_vars

\* the stage of a controller, as _ProScanIIIStage.__init__ leaves it
InitStage ==
    /\ held = [t \in Threads |-> 0]
    /\ timeout = DefaultTimeout
    /\ inbuf = <<>>
    /\ inflight = <<>>
    /\ old = NoOld
    /\ tmc = NoTMC
    /\ nanomax = NanoMaxIdle
    /\ ueye = NoCameras
    /\ wire = NoWire
    /\ conn = "ok"
    /\ stack = [t \in Threads |-> <<>>]
    /\ ret = [t \in Threads |-> NoRet]
    /\ exc = [t \in Threads |-> NoExc]
    /\ cur = [t \in Threads |-> Idle]
    /\ devices = {Axis(name) : name \in StageAxes}
    /\ calls = 0
    /\ limits = [name \in StageAxes |-> NoLimits]
    /\ runs = [name \in StageAxes |-> 0]
    /\ _devices = {Entry(StageLabel, Stage)}

\* the steps of the methods of an axis
AxisEngine(t) ==
    \/ command(t)
    \/ readline(t)
    \/ read_until_timeout(t)
    \/ get_command(t)
    \/ _command_and_validate(t)
    \/ changed_timeout(t)
    \/ move_command(t)
    \/ get_description(t)
    \/ Unwind(t)
    \/ is_limit_switch_active(t)
    \/ position(t)
    \/ move_by(t)
    \/ move_to(t)
    \/ _get_limit(t)
    \/ _find_limits(t)
    \/ _do_enable(t)
    \/ Limits(t)

NextLimits ==
    \/ Arrive
    \/ AxisEngine(MainThread)
    \/ CallEnable(MainThread)
    \/ CallLimits(MainThread)
    \/ CallPosition(MainThread)
    \/ CallMoveBy(MainThread)
    \/ CallAxisMoveTo(MainThread)

SpecLimits == InitStage /\ [][NextLimits]_vars

\* a call made on the X axis
OnX(t, name, proc, pc, n) ==
    Start(t, name, [Frame(proc, pc, <<>>, <<"X">>, n) EXCEPT !.dev = Axis(<<"X">>)])

-----------------------------------------------------------------------------
(* _ProScanIIIStage: moves given as a mapping from axis names to numbers *)

\* a mapping is the sequence of its items, <<key, value>>, in the order of the
\* dict, with no key twice
HasKey(pos, k) == \E i \in 1..Len(pos) : pos[i][1] = k

\* pos[k]
Get(pos, k) == pos[CHOOSE i \in 1..Len(pos) : pos[i][1] = k][2]

\* the name of the axis self._axes[key]
AxisOf(key) == IF key = "x" THEN <<"X">> ELSE <<"Y">>

\* a go_relative that takes y for x
go_relative_Swapped(x, y, z) == CmdGR(y, x, z)

\* go_relative(x, y, z=0): the command it gives to move_command
go_relative(x, y, z) == CmdGR(x, y, z)

\* go(xpos, ypos, zpos=0): the command it gives to move_command
go(xpos, ypos, zpos) ==
    <<"G", " ">> \o IntToBytes(xpos) \o <<" ">> \o IntToBytes(ypos)
    \o <<" ">> \o IntToBytes(zpos)

\* _move_helper(axis_method, stage_method, pos); cmd is <<axis_method,
\* stage_method>> and exp is pos
_move_helper(t) ==
    \/ /\ At(t, "_move_helper", "len")
       /\ Len(Top(t).exp) = 1
       /\ LET axis_name == Top(t).exp[1][1]
              axis_delta == Top(t).exp[1][2]
          IN  IF axis_name \notin {"x", "y"}
              THEN /\ Raise(t, Error("KeyError", <<>>, <<>>))
                   /\ UNCHANGED stack
              ELSE /\ Call(t, "ret", [Frame(Top(t).cmd[1], "call", <<>>,
                                            AxisOf(axis_name), axis_delta)
                                      EXCEPT !.dev = Axis(AxisOf(axis_name))])
                   /\ UNCHANGED exc
       /\ wire' = NoWire
       /\ UNCHANGED <<held, timeout, inbuf, inflight, old, conn, ret, cur, rest>>
    \/ /\ At(t, "_move_helper", "len")
       /\ Len(Top(t).exp) = 2
       /\ IF ~(HasKey(Top(t).exp, "x") /\ HasKey(Top(t).exp, "y"))
          THEN /\ Raise(t, Error("KeyError", <<>>, <<>>))
               /\ UNCHANGED stack
          ELSE /\ Call(t, "ret",
                       Frame("move_command", "arg",
                             IF Top(t).cmd[2] = "go_relative"
                             THEN go_relative(Get(Top(t).exp, "x"), Get(Top(t).exp, "y"), 0)
                             ELSE go(Get(Top(t).exp, "x"), Get(Top(t).exp, "y"), 0),
                             <<>>, 0))
               /\ UNCHANGED exc
       /\ wire' = NoWire
       /\ UNCHANGED <<held, timeout, inbuf, inflight, old, conn, ret, cur, rest>>
    \/ /\ At(t, "_move_helper", "len")
       /\ Len(Top(t).exp) \notin {1, 2}
       /\ Raise(t, Error("TypeError", <<>>, <<>>))
       /\ wire' = NoWire
       /\ UNCHANGED <<held, timeout, inbuf, inflight, old, conn, stack, ret, cur, rest>>
    \/ /\ At(t, "_move_helper", "ret")
       /\ Return(t, NoRet, cur[t])
       /\ wire' = NoWire
       /\ UNCHANGED <<held, timeout, inbuf, inflight, old, conn, exc, rest>>

\* _ProScanIIIStage.move_by(delta)
Stage_move_by(t) ==
    \/ /\ At(t, "Stage.move_by", "call")
       /\ Call(t, "ret", Frame("_move_helper", "len", <<"move_by", "go_relative">>,
                               Top(t).exp, 0))
       /\ wire' = NoWire
       /\ UNCHANGED <<held, timeout, inbuf, inflight, old, conn, ret, exc, cur, rest>>
    \/ /\ At(t, "Stage.move_by", "ret")
       /\ Return(t, NoRet, cur[t])
       /\ wire' = NoWire
       /\ UNCHANGED <<held, timeout, inbuf, inflight, old, conn, exc, rest>>

\* _ProScanIIIStage.move_to(position)
Stage_move_to(t) ==
    \/ /\ At(t, "Stage.move_to", "call")
       /\ Call(t, "ret", Frame("_move_helper", "len", <<"move_to", "go">>,
                               Top(t).exp, 0))
       /\ wire' = NoWire
       /\ UNCHANGED <<held, timeout, inbuf, inflight, old, conn, ret, exc, cur, rest>>
    \/ /\ At(t, "Stage.move_to", "ret")
       /\ Return(t, NoRet, cur[t])
       /\ wire' = NoWire
       /\ UNCHANGED <<held, timeout, inbuf, inflight, old, conn, exc, rest>>

\* the keys of the mappings the stage is called with, and the value of each
Keys == {"x", "y", "z"}
ValueAt(key) == IF key = "x" THEN 0 - MaxPos ELSE IF key = "y" THEN 10 * MaxPos + 2
                ELSE MaxPos

\* the mappings of zero to three of the keys, in every order
StageMappings ==
    UNION { { [i \in 1..n |-> <<s[i], ValueAt(s[i])>>] :
                s \in {u \in [1..n -> Keys] : \A i, j \in 1..n : u[i] = u[j] => i = j} } :
            n \in 0..3 }

CallStageMoveBy(t) ==
    \E pos \in StageMappings :
        Start(t, "Stage.move_by", Frame("Stage.move_by", "call", <<>>, pos, 0))

CallStageMoveTo(t) ==
    \E pos \in StageMappings :
        Start(t, "Stage.move_to", Frame("Stage.move_to", "call", <<>>, pos, 0))

\* the stage moved by mappings
NextStage ==
    \/ Arrive
    \/ command(MainThread)
    \/ readline(MainThread)
    \/ read_until_timeout(MainThread)
    \/ get_command(MainThread)
    \/ _command_and_validate(MainThread)
    \/ changed_timeout(MainThread)
    \/ move_command(MainThread)
    \/ Unwind(MainThread)
    \/ move_by(MainThread)
    \/ move_to(MainThread)
    \/ _move_helper(MainThread)
    \/ Stage_move_by(MainThread)
    \/ Stage_move_to(MainThread)
    \/ CallStageMoveBy(MainThread)
    \/ CallStageMoveTo(MainThread)

SpecStage == InitStage /\ [][NextStage]_vars

\* the signs is_limit_switch_active is called with
Signs == {-1, 0, 1}

\* connection.is_limit_switch_active(axis, sign)
CallSwitch(t) ==
    \E axis \in StageAxes, sign \in Signs :
        Start(t, "is_limit_switch_active",
              Frame("is_limit_switch_active", "sign", <<>>, axis, sign))

\* the connection asked for its limit switches
NextSwitch ==
    \/ Arrive
    \/ command(MainThread)
    \/ readline(MainThread)
    \/ get_command(MainThread)
    \/ is_limit_switch_active(MainThread)
    \/ Unwind(MainThread)
    \/ CallSwitch(MainThread)

SpecSwitch == InitStage /\ [][NextSwitch]_vars

\* the main thread enables the X axis while another thread uses it
NextInterject ==
    \/ Arrive
    \/ \E t \in Threads : AxisEngine(t)
    \/ OnX(MainThread, "enable", "_do_enable", "test", 0)
    \/ \E t \in Threads \ {MainThread} :
         \/ OnX(t, "move_to", "move_to", "call", MaxPos)
         \/ OnX(t, "limits", "limits", "test", 0)

SpecInterject == InitStage /\ [][NextInterject]_vars

\* the construction of a controller
NextController ==
    \/ ConstructController
    \/ Arrive
    \/ Connection_init(MainThread)
    \/ command(MainThread)
    \/ readline(MainThread)
    \/ read_until_timeout(MainThread)
    \/ get_command(MainThread)
    \/ _command_and_validate(MainThread)
    \/ set_command(MainThread)
    \/ Unwind(MainThread)
    \/ Probes(MainThread)
    \/ has_filterwheel(MainThread)
    \/ FilterWheel_init(MainThread)
    \/ StageAxis_init(MainThread)
    \/ Stage_init(MainThread)
    \/ ProScanIII_init(MainThread)

SpecController == Init /\ [][NextController]_vars

\* a controller that found filter wheel 3 and the stage
InitController ==
    /\ held = [t \in Threads |-> 0]
    /\ timeout = DefaultTimeout
    /\ inbuf = <<>>
    /\ inflight = <<>>
    /\ old = NoOld
    /\ tmc = NoTMC
    /\ nanomax = NanoMaxIdle
    /\ ueye = NoCameras
    /\ wire = NoWire
    /\ conn = "ok"
    /\ stack = [t \in Threads |-> <<>>]
    /\ ret = [t \in Threads |-> NoRet]
    /\ exc = [t \in Threads |-> NoExc]
    /\ cur = [t \in Threads |-> Idle]
    /\ devices = {Axis(name) : name \in StageAxes} \cup {Wheel(3)}
    /\ calls = 0
    /\ limits = [name \in StageAxes |-> NoLimits]
    /\ runs = [name \in StageAxes |-> 0]
    /\ _devices = {Entry(Label(3), Wheel(3)), Entry(StageLabel, Stage)}

\* the operations of a controller and of its devices
NextOperate ==
    \/ Arrive
    \/ AxisEngine(MainThread)
    \/ get_filter_position(MainThread)
    \/ set_filter_position(MainThread)
    \/ Devices(MainThread)
    \/ CallEnable(MainThread)
    \/ CallLimits(MainThread)
    \/ CallPosition(MainThread)
    \/ CallMoveBy(MainThread)
    \/ CallAxisMoveTo(MainThread)
    \/ CallGetPosition(MainThread)
    \/ CallSetPosition(MainThread)
    \/ CallDevices(MainThread)

SpecOperate == InitController /\ [][NextOperate]_vars

\* threads opening changed_timeout scopes
NextScope ==
    \E t \in Threads :
        \/ EnterScope(t)
        \/ scope(t)
        \/ changed_timeout(t)
        \/ Unwind(t)

SpecScope == InitConnected /\ [][NextScope]_vars

-----------------------------------------------------------------------------
(* ThorlabsNanoMax.enable (microscope/stages/thorlabs_nanomax.py) *)

\* the variables of the ProScanIII controller
prior == <<held, timeout, inbuf, inflight, old, wire, conn, stack, ret, exc, cur,
           devices, calls, limits, runs, _devices>>

\* StatusBits
MOTOR_CONNECTED == 256
MOTOR_HOMING == 512
MOTOR_HOMED == 1024

\* self.n_axes
n_axes == 3

\* what a channel reports: connected; connected and homing; connected and homed
StatusValues ==
    {MOTOR_CONNECTED, MOTOR_CONNECTED + MOTOR_HOMING, MOTOR_CONNECTED + MOTOR_HOMED}

\* what SBC_Home and SBC_RequestStatusBits return: success, a code that
\* errors_dict has, one that it has not
ReturnCodes == {0, 2, 99}

\* status & flag, for a flag of one bit
BitAnd(status, flag) == IF (status \div flag) % 2 = 1 THEN flag ELSE 0

\* list(channels): the elements of the set in some order
ListOf(channels) ==
    {u \in [1..Cardinality(channels) -> channels] :
        \A i, j \in 1..Cardinality(channels) : u[i] = u[j] => i = j}

\* the channels go on with their homing, or not
Device ==
    /\ \E c \in Channels, b \in StatusValues :
         /\ tmc.bits[c] # b
         /\ tmc' = [tmc EXCEPT !.bits[c] = b]
    /\ UNCHANGED <<prior, nanomax, ueye>>

\* stage.enable() is called
CallNanoMaxEnable ==
    /\ nanomax.pc = "idle"
    /\ nanomax' = [nanomax EXCEPT !.pc = "home", !.channel_nr = 0]
    /\ UNCHANGED <<prior, tmc, ueye>>

\* ThorlabsNanoMax.enable
enable ==
    \/ /\ nanomax.pc = "home"
       /\ nanomax.channel_nr < n_axes
       /\ \E status \in ReturnCodes :
            nanomax' = IF status # 0
                       THEN [nanomax EXCEPT !.pc = "raised", !.exc = "DeviceError",
                                            !.status = status]
                       ELSE [nanomax EXCEPT !.channel_nr = @ + 1, !.status = status]
       /\ UNCHANGED <<prior, tmc, ueye>>
    \/ /\ nanomax.pc = "home"
       /\ nanomax.channel_nr = n_axes
       /\ nanomax' = [nanomax EXCEPT !.pc = "while", !.channels_not_homed = {1, 2, 3}]
       /\ UNCHANGED <<prior, tmc, ueye>>
    \/ /\ nanomax.pc = "while"
       /\ IF nanomax.channels_not_homed = {}
          THEN nanomax' = [nanomax EXCEPT !.pc = "done"]
          ELSE \E l \in ListOf(nanomax.channels_not_homed) :
                 nanomax' = [nanomax EXCEPT !.pc = "for", !.todo = l]
       /\ UNCHANGED <<prior, tmc, ueye>>
    \/ /\ nanomax.pc = "for"
       /\ nanomax' = IF nanomax.todo = <<>>
                     THEN [nanomax EXCEPT !.pc = "while"]
                     ELSE [nanomax EXCEPT !.pc = "request",
                                          !.channel = Head(nanomax.todo),
                                          !.todo = Tail(nanomax.todo)]
       /\ UNCHANGED <<prior, tmc, ueye>>
    \/ /\ nanomax.pc = "request"
       /\ IF ~tmc.bound
          THEN nanomax' = [nanomax EXCEPT !.pc = "raised", !.exc = "AttributeError"]
          ELSE \E status \in ReturnCodes :
                 nanomax' = IF status # 0
                            THEN [nanomax EXCEPT !.pc = "raised", !.exc = "RuntimeError",
                                                 !.status = status]
                            ELSE [nanomax EXCEPT !.pc = "get", !.status = status]
       /\ UNCHANGED <<prior, tmc, ueye>>
    \/ /\ nanomax.pc = "get"
       /\ nanomax' = [nanomax EXCEPT !.pc = "test",
                                     !.status = tmc.bits[nanomax.channel + 1],
                                     !.read = nanomax.channel + 1]
       /\ UNCHANGED <<prior, tmc, ueye>>
    \/ /\ nanomax.pc = "test"
       /\ nanomax' = IF BitAnd(nanomax.status, MOTOR_HOMED) # 0
                     THEN [nanomax EXCEPT !.pc = "for",
                                          !.channels_not_homed = @ \ {nanomax.channel}]
                     ELSE [nanomax EXCEPT !.pc = "for"]
       /\ UNCHANGED <<prior, tmc, ueye>>

\* a stage whose library has the status functions or has not, its channels in
\* any state
InitNanoMax ==
    /\ held = [t \in Threads |-> 0]
    /\ timeout = DefaultTimeout
    /\ inbuf = <<>>
    /\ inflight = <<>>
    /\ old = NoOld
    /\ wire = NoWire
    /\ conn = "new"
    /\ stack = [t \in Threads |-> <<>>]
    /\ ret = [t \in Threads |-> NoRet]
    /\ exc = [t \in Threads |-> NoExc]
    /\ cur = [t \in Threads |-> Idle]
    /\ devices = {}
    /\ calls = 0
    /\ limits = [name \in StageAxes |-> NoLimits]
    /\ runs = [name \in StageAxes |-> 0]
    /\ _devices = {}
    /\ tmc \in [bound : BOOLEAN, bits : [Channels -> StatusValues]]
    /\ nanomax = NanoMaxIdle
    /\ ueye = NoCameras

NextNanoMax ==
    \/ Device
    \/ CallNanoMaxEnable
    \/ enable

SpecNanoMax == InitNanoMax /\ [][NextNanoMax]_vars

\* enable goes on whenever it can
SpecNanoMaxLive == SpecNanoMax /\ WF_vars(enable)

-----------------------------------------------------------------------------
(* MockLibueye (microscope/testsuite/test_cameras_ids.py) *)

\* how many cameras a test plugs
MaxPlugged == 3

\* the bit of hCam that says the rest is a device id
DeviceIdFlag == 32768

\* the camera's own account of its mode
on_closed(c) == ueye.mode[c] = "closed"

on_open(c) == ueye.mode[c] # "closed"

to_freerun_mode(c) == [ueye.mode EXCEPT ![c] = "freerun"]

to_closed_mode(c) == [ueye.mode EXCEPT ![c] = "closed"]

\* self._id_to_camera.keys()
DeviceIds == 1..Len(ueye.ids)

\* a library that hands out the closed camera of the largest id, not the smallest
get_last_available_camera ==
    IF \E i \in DeviceIds : on_closed(ueye.ids[i])
    THEN ueye.ids[CHOOSE i \in DeviceIds :
                    /\ on_closed(ueye.ids[i])
                    /\ \A j \in DeviceIds : on_closed(ueye.ids[j]) => j <= i]
    ELSE "None"

\* MockLibueye.get_next_available_camera
get_next_available_camera ==
    IF \E i \in DeviceIds : on_closed(ueye.ids[i])
    THEN ueye.ids[CHOOSE i \in DeviceIds :
                    /\ on_closed(ueye.ids[i])
                    /\ \A j \in DeviceIds : on_closed(ueye.ids[j]) => i <= j]
    ELSE "None"

\* MockLibueye.get_id_from_camera: device_ids, and the id when there is one
device_ids(camera) == {i \in DeviceIds : ueye.ids[i] = camera}

get_id_from_camera(camera) == CHOOSE i \in device_ids(camera) : TRUE

\* hCam.value & (~0x8000)
DeviceIdOf(value) == value - BitAnd(value, DeviceIdFlag)

\* a call as the test sees it once it is over
Called(op, arg, hWnd, r, handle, e) ==
    [op |-> op, arg |-> arg, hWnd |-> hWnd, ret |-> r, handle |-> handle, exc |-> e,
     before |-> ueye.mode, ids |-> ueye.ids]

\* MockLibueye.plug_camera
plug_camera ==
    /\ Len(ueye.ids) < MaxPlugged
    /\ \E camera \in Cameras :
         ueye' = [ueye EXCEPT !.ids = Append(@, camera)]
    /\ UNCHANGED <<prior, tmc, nanomax>>

\* the values of hCam a test passes: 0, a camera id, a device id with its flag
Handles == 0..1 \cup {DeviceIdFlag + k : k \in 0..(MaxPlugged + 1)}

\* MockLibueye.InitCamera; None stands for the camera that was not found
InitCamera ==
    /\ \E value \in Handles, hWnd \in BOOLEAN :
         LET device_id == DeviceIdOf(value)
             camera == IF device_id = 0 THEN get_next_available_camera
                       ELSE IF device_id \in DeviceIds THEN ueye.ids[device_id]
                       ELSE "None"
         IN  IF hWnd
             THEN ueye' = [ueye EXCEPT
                     !.last = Called("InitCamera", value, hWnd, 0, value,
                                     "NotImplementedError")]
             ELSE IF value # 0 /\ BitAnd(value, DeviceIdFlag) = 0
             THEN ueye' = [ueye EXCEPT
                     !.last = Called("InitCamera", value, hWnd, 0, value,
                                     "NotImplementedError")]
             ELSE IF camera = "None"
             THEN ueye' = [ueye EXCEPT
                     !.last = Called("InitCamera", value, hWnd, 3, 0, "none")]
             ELSE IF on_open(camera)
             THEN ueye' = [ueye EXCEPT
                     !.last = Called("InitCamera", value, hWnd, 3, 0, "none")]
             ELSE IF Cardinality(device_ids(camera)) # 1
             THEN ueye' = [ueye EXCEPT
                     !.mode = to_freerun_mode(camera),
                     !.last = Called("InitCamera", value, hWnd, 0, 0, "AssertionError")]
             ELSE ueye' = [ueye EXCEPT
                     !.mode = to_freerun_mode(camera),
                     !.last = Called("InitCamera", value, hWnd, 0,
                                     get_id_from_camera(camera), "none")]
    /\ UNCHANGED <<prior, tmc, nanomax>>

\* MockLibueye.ExitCamera
ExitCamera ==
    /\ \E value \in 0..(MaxPlugged + 1) \cup {DeviceIdFlag + 1} :
         IF value \notin DeviceIds
         THEN ueye' = [ueye EXCEPT
                 !.last = Called("ExitCamera", value, FALSE, 1, value, "none")]
         ELSE IF on_closed(ueye.ids[value])
         THEN ueye' = [ueye EXCEPT
                 !.last = Called("ExitCamera", value, FALSE, 1, value, "none")]
         ELSE ueye' = [ueye EXCEPT
                 !.mode = to_closed_mode(ueye.ids[value]),
                 !.last = Called("ExitCamera", value, FALSE, 0, value, "none")]
    /\ UNCHANGED <<prior, tmc, nanomax>>

NextUeye ==
    \/ plug_camera
    \/ InitCamera
    \/ ExitCamera

\* the library as MockLibueye() leaves it, and what a test then does with it
SpecUeye == Init /\ [][NextUeye]_vars

-----------------------------------------------------------------------------
(* Properties *)

Done(t) == cur[t].status \in {"ok", "failed"}

\* thread u has written the command of an exchange and has not read its reply
InExchange(u) ==
    \E i \in 1..Len(stack[u]) :
        LET f == stack[u][i]
            top == i = Len(stack[u])
            g == stack[u][IF top THEN i ELSE i + 1]
        IN  \/ /\ f.proc = "get_command"
               /\ f.pc = "call_readline"
               /\ top \/ (g.proc = "command" /\ g.pc = "unlock")
            \/ /\ f.proc = "get_command"
               /\ f.pc = "unlock"
               /\ ~top /\ g.proc = "readline" /\ g.pc \in {"lock", "read"}
            \/ /\ f.proc = "get_description"
               /\ f.pc = "read"
               /\ top \/ (g.proc = "command" /\ g.pc = "unlock")

\* C1: while a thread is between the command write and the reply read of an
\* exchange (get_command, and so set_command and move_command, or
\* get_description), no other thread writes to, reads from or flushes the
\* serial port.
C1_ExchangeNotInterleaved ==
    \A u \in Threads : InExchange(u) => wire.by \in {"none", u}

\* a thread is in the middle of an exchange while the other one, in a call of
\* its own, waits for the lock
C1_Witness ==
    \E u, v \in Threads :
        /\ u # v
        /\ InExchange(u)
        /\ stack[v] # <<>>
        /\ Top(v).pc = "lock"
        /\ wire.by = u

\* C2: a thread that writes to, reads from or flushes the serial port holds
\* the connection's lock, and no other thread does, at that moment; this
\* covers the handshake of the constructor, description reads and the drain.
C2_AccessUnderLock ==
    wire.by # "none" =>
        /\ held[wire.by] > 0
        /\ \A u \in Threads \ {wire.by} : held[u] = 0

\* the drain of a failed handshake flushes the port
C2_Witness == wire.kind = "flush" /\ conn = "building" /\ held[wire.by] > 0

\* C3: a set_command writes its command once; when the reply it reads is not
\* exactly "0\r" (an empty read on timeout included) it has drained the input
\* before it raises, and it ends with the error.
C3_SetCommandFailsAfterDrain ==
    \A t \in Threads :
        cur[t].name = "set_command" =>
            /\ Len(cur[t].sent) <= 1
            /\ exc[t].kind # "none" => cur[t].drains = 1
            /\ Done(t) => Len(cur[t].sent) = 1
            /\ (Done(t) /\ cur[t].reply # <<"0", "\r">>) =>
                   /\ cur[t].status = "failed"
                   /\ exc[t].kind = "RuntimeError"
                   /\ cur[t].drains = 1

\* a set_command whose read timed out has failed after one drain
C3_Witness ==
    \E t \in Threads :
        /\ cur[t].name = "set_command"
        /\ cur[t].status = "failed"
        /\ cur[t].reply = <<>>
        /\ cur[t].drains = 1

\* C4: the reply of every move_command is read under a timeout of exactly ten
\* times the timeout the connection was constructed with.
C4_MoveReadUnderTenfoldTimeout ==
    \A t \in Threads :
        (cur[t].name = "move_command" /\ cur[t].tmo # 0) =>
            cur[t].tmo = 10 * DefaultTimeout

\* C5: when a changed_timeout scope is left, by the end of its block, a
\* return or an exception, the timeout is the one found when it was entered.
C5_ScopeRestoresTimeout ==
    [][\A t \in Threads :
         (/\ stack[t] # <<>>
          /\ InScope(Top(t))
          /\ Len(stack'[t]) < Len(stack[t])) => timeout' = Top(t).entry]_vars

\* a thread whose nested scopes were left by an exception
C5_Witness ==
    \E t \in Threads :
        /\ cur[t].name = "scope"
        /\ cur[t].n = 2
        /\ cur[t].status = "failed"
        /\ stack[t] = <<>>

\* C6: a get_description that returns has read a block ending with "\rEND\r".
C6_DescriptionEndsWithMarker ==
    \A t \in Threads :
        (cur[t].name = "get_description" /\ cur[t].status = "ok") =>
            EndsWith(cur[t].reply, <<"\r", "E", "N", "D", "\r">>)

ProbePrefix(t) ==
    IF cur[t].name = "has_stage" THEN <<"S", "T", "A", "G", "E", " ", "=", " ">>
    ELSE <<"F", "I", "L", "T", "E", "R", "_", Digits[cur[t].n + 1], " ", "=", " ">>

\* C7: a probe whose description starts with the prefix and "NONE\r" returns
\* false, one whose description starts with the prefix and anything else
\* returns true, and one whose description does not start with the prefix
\* drains the input and raises.
C7_HasThing ==
    \A t \in Threads :
        (/\ cur[t].name \in {"has_stage", "has_filterwheel"}
         /\ Done(t)
         /\ cur[t].sent # <<>>) =>
            LET d == cur[t].reply
                none == ProbePrefix(t) \o <<"N", "O", "N", "E", "\r">>
            IN  /\ StartsWith(d, none) =>
                    cur[t].status = "ok" /\ ~ret[t].bool
                /\ (StartsWith(d, ProbePrefix(t)) /\ ~StartsWith(d, none)) =>
                    cur[t].status = "ok" /\ ret[t].bool
                /\ ~StartsWith(d, ProbePrefix(t)) =>
                    /\ cur[t].status = "failed"
                    /\ exc[t].kind = "RuntimeError"
                    /\ cur[t].drains = 1

\* the probe of a filter wheel that is not there has returned false
C7_Witness ==
    \E t \in Threads :
        /\ cur[t].name = "has_filterwheel"
        /\ cur[t].status = "ok"
        /\ ~ret[t].bool
        /\ StartsWith(cur[t].reply, ProbePrefix(t) \o <<"N", "O", "N", "E", "\r">>)

\* C8: the construction of the connection succeeds exactly when the line read
\* after "?\r" is "PROSCAN INFORMATION\r" and the bytes read after it end with
\* "\rEND\r"; after another first line it drains the input and fails.
C8_Handshake ==
    (cur[MainThread].name = "__init__" /\ Done(MainThread)) =>
        /\ cur[MainThread].sent = << <<"?", "\r">> >>
        /\ cur[MainThread].status = "ok" <=>
               /\ cur[MainThread].reply = Header
               /\ EndsWith(cur[MainThread].block, <<"\r", "E", "N", "D", "\r">>)
        /\ cur[MainThread].status = "ok" <=> conn = "ok"
        /\ cur[MainThread].reply # Header =>
               /\ cur[MainThread].drains = 1
               /\ exc[MainThread].kind = "RuntimeError"

\* a construction that read the header and no end marker has failed
C8_Witness ==
    /\ cur[MainThread].name = "__init__"
    /\ cur[MainThread].status = "failed"
    /\ conn = "failed"
    /\ cur[MainThread].reply = Header
    /\ cur[MainThread].block # <<>>

\* C9: every adapter that exists is an axis named X or Y or a filter wheel
\* numbered 1 to 3, and a constructor given another name or number ends with an
\* error.
C9_NoInvalidAdapter ==
    /\ \A d \in devices :
         /\ d.kind = "axis" => d.name \in {<<"X">>, <<"Y">>}
         /\ d.kind = "wheel" => d.number \in 1..3
    /\ \A t \in Threads :
         /\ (cur[t].name = "StageAxis.__init__"
             /\ cur[t].arg \notin {<<"X">>, <<"Y">>}) => cur[t].status # "ok"
         /\ (cur[t].name = "FilterWheel.__init__"
             /\ cur[t].n \notin 1..3) => cur[t].status # "ok"

\* the constructor of filter wheel 4 has failed, and so has that of axis Z
C9_Witness ==
    \E t \in Threads :
        /\ cur[t].status = "failed"
        /\ \/ cur[t].name = "FilterWheel.__init__" /\ cur[t].n > 3
           \/ cur[t].name = "StageAxis.__init__" /\ cur[t].arg = <<"Z">>
        /\ devices # {}

DigitValue(c) == CHOOSE d \in 0..9 : Digits[d + 1] = c

RECURSIVE DecimalValue(_)
DecimalValue(u) ==
    IF u = <<>> THEN 0
    ELSE 10 * DecimalValue(SubSeq(u, 1, Len(u) - 1)) + DigitValue(u[Len(u)])

\* s is the decimal numeral of n: a minus sign for a negative number, then
\* digits without a leading zero
IsDecimalOf(s, n) ==
    LET u == IF s # <<>> /\ Head(s) = "-" THEN Tail(s) ELSE s
    IN  /\ u # <<>>
        /\ \A i \in 1..Len(u) : \E d \in 1..10 : u[i] = Digits[d]
        /\ Len(u) > 1 => u[1] # "0"
        /\ (s[1] = "-") <=> (n < 0)
        /\ DecimalValue(u) = (IF n < 0 THEN -n ELSE n)

\* C10: move_to(p) on axis X writes "GX p\r" and on axis Y "GY p\r", once;
\* it succeeds only on the reply "R\r" and after any other reply it has drained
\* the input and fails.
C10_MoveTo ==
    \A t \in Threads :
        cur[t].name = "move_to" =>
            /\ Len(cur[t].sent) <= 1
            /\ Done(t) => Len(cur[t].sent) = 1
            /\ \A i \in 1..Len(cur[t].sent) :
                 LET w == cur[t].sent[i]
                 IN  /\ Len(w) >= 5
                     /\ SubSeq(w, 1, 3) = <<"G">> \o cur[t].arg \o <<" ">>
                     /\ w[Len(w)] = "\r"
                     /\ IsDecimalOf(SubSeq(w, 4, Len(w) - 1), cur[t].n)
            /\ cur[t].status = "ok" => cur[t].reply = <<"R", "\r">>
            /\ (Done(t) /\ cur[t].reply # <<"R", "\r">>) =>
                   /\ cur[t].status = "failed"
                   /\ exc[t].kind = "RuntimeError"
                   /\ cur[t].drains = 1

\* a move of axis Y answered with the acknowledgement of a set command has
\* failed
C10_Witness ==
    \E t \in Threads :
        /\ cur[t].name = "move_to"
        /\ cur[t].arg = <<"Y">>
        /\ cur[t].n < 0
        /\ cur[t].status = "failed"
        /\ cur[t].reply = <<"0", "\r">>

\* C11: set_position(n) of filter wheel w writes "7 w n\r", once, and succeeds
\* only on the reply "R\r" (after "0\r" it fails); get_position writes
\* "7 w F\r", once, and returns the number the reply is the numeral of, for
\* wheel 3 as for the others.
C11_FilterWheelCommands ==
    \A t \in Threads :
        LET w == cur[t].dev.number
            head == <<"7", " ", Digits[w + 1], " ">>
        IN  /\ cur[t].name = "set_position" =>
                /\ w \in 1..3
                /\ Len(cur[t].sent) <= 1
                /\ Done(t) => Len(cur[t].sent) = 1
                /\ \A i \in 1..Len(cur[t].sent) :
                     LET c == cur[t].sent[i]
                     IN  /\ Len(c) >= 6
                         /\ SubSeq(c, 1, 4) = head
                         /\ c[Len(c)] = "\r"
                         /\ IsDecimalOf(SubSeq(c, 5, Len(c) - 1), cur[t].n)
                /\ cur[t].status = "ok" => cur[t].reply = <<"R", "\r">>
                /\ (Done(t) /\ cur[t].reply # <<"R", "\r">>) =>
                       cur[t].status = "failed" /\ exc[t].kind = "RuntimeError"
            /\ cur[t].name = "get_position" =>
                /\ w \in 1..3
                /\ Len(cur[t].sent) <= 1
                /\ Done(t) => cur[t].sent = << head \o <<"F", "\r">> >>
                /\ \A i \in 1..Len(cur[t].sent) :
                     cur[t].sent[i] = head \o <<"F", "\r">>
                /\ cur[t].status = "ok" =>
                     /\ Len(cur[t].reply) >= 2
                     /\ cur[t].reply[Len(cur[t].reply)] = "\r"
                     /\ IsDecimalOf(SubSeq(cur[t].reply, 1, Len(cur[t].reply) - 1),
                                    ret[t].int)

\* wheel 3 has been asked for its position and has answered 4
C11_Witness ==
    \E t \in Threads :
        /\ cur[t].name = "get_position"
        /\ cur[t].dev.number = 3
        /\ cur[t].status = "ok"
        /\ cur[t].reply = <<"4", "\r">>
        /\ ret[t].int = 4

\* C12: a query of the limits of an axis whose limits are absent ends with an
\* error, and no query of limits writes anything to the serial port or starts
\* a find-limits run.
C12_LimitsNotReady ==
    \A t \in Threads :
        cur[t].name = "limits" =>
            /\ cur[t].sent = <<>>
            /\ \A i \in 1..Len(stack[t]) : stack[t][i].proc = "limits"
            /\ (Done(t) /\ limits[cur[t].dev.name] = <<>>) =>
                   /\ cur[t].status = "failed"
                   /\ exc[t].kind = "RuntimeError"

\* the limits of an axis are asked for after a find-limits run that failed
C12_Witness ==
    \E t \in Threads :
        /\ cur[t].name = "limits"
        /\ cur[t].status = "failed"
        /\ runs[cur[t].dev.name] = 1
        /\ limits[cur[t].dev.name] = <<>>

Body(reply) == SubSeq(reply, 1, Len(reply) - 1)

\* the number a reply of digits, with or without a minus sign, stands for
ValueOf(reply) ==
    IF Head(reply) = "-" THEN 0 - DecimalValue(Tail(Body(reply)))
    ELSE DecimalValue(Body(reply))

\* the relative move of an axis by the numeral d
RelativeMove(axis, d) ==
    IF axis = <<"X">> THEN <<"G", "R", " ">> \o d \o <<" ", "0", " ", "0", "\r">>
    ELSE <<"G", "R", " ", "0", " ">> \o d \o <<" ", "0", "\r">>

\* C14: an enable that found the limits has written, in this order: STAGE,
\* the position query, the relative move by minus twice the range (4000
\* microsteps for the stage of 1 mm at 2 microsteps per micron), LMT, the
\* position query, the move by plus twice the range, LMT, the position query,
\* and the absolute move to the position read first; the limits are the
\* positions read fifth and eighth, in that order.
C14_FindLimitsSequence ==
    \A t \in Threads :
        (cur[t].name = "enable" /\ cur[t].status = "ok" /\ cur[t].sent # <<>>) =>
            LET axis == cur[t].dev.name
                P == <<"P">> \o axis \o <<"\r">>
                LMT == <<"L", "M", "T", "\r">>
            IN  /\ Len(cur[t].got) = 9
                /\ cur[t].sent =
                     << <<"S", "T", "A", "G", "E", "\r">>,
                        P,
                        RelativeMove(axis, <<"-", "4", "0", "0", "0">>),
                        LMT,
                        P,
                        RelativeMove(axis, <<"4", "0", "0", "0">>),
                        LMT,
                        P,
                        cur[t].sent[9] >>
                /\ SubSeq(cur[t].sent[9], 1, 3) = <<"G">> \o axis \o <<" ">>
                /\ IsDecimalOf(Body(SubSeq(cur[t].sent[9], 4, Len(cur[t].sent[9]))),
                               ValueOf(cur[t].got[2]))
                /\ cur[t].sent[9][Len(cur[t].sent[9])] = "\r"
                /\ cur[t].pair = <<ValueOf(cur[t].got[5]), ValueOf(cur[t].got[8])>>
                /\ limits[axis] = cur[t].pair

\* the limits of axis Y have been found, 4 at the negative end and -3 at the
\* positive end
C14_Witness ==
    \E t \in Threads :
        /\ cur[t].name = "enable"
        /\ cur[t].status = "ok"
        /\ cur[t].dev.name = <<"Y">>
        /\ limits[<<"Y">>] = <<4, -3>>
        /\ Len(cur[t].sent) = 9

\* C15: when the reply to LMT after an overshoot move of a find-limits run
\* shows no switch asserted, the run writes nothing more, the enable ends
\* with an error and the limits of the axis are absent.
C15_NoMoveAfterMissedLimit ==
    \A t \in Threads :
        cur[t].name = "enable" =>
            \A k \in {4, 7} :
                (Len(cur[t].got) >= k /\ cur[t].got[k] = <<"0", "0", "\r">>) =>
                    /\ Len(cur[t].sent) = k
                    /\ cur[t].sent[k] = <<"L", "M", "T", "\r">>
                    /\ cur[t].status # "ok"
                    /\ Done(t) => exc[t].kind = "RuntimeError"
                    /\ cur[t].pair = <<>>
                    /\ limits[cur[t].dev.name] = <<>>

\* a find-limits run has failed at the upper limit, after its first move
C15_Witness ==
    \E t \in Threads :
        /\ cur[t].name = "enable"
        /\ cur[t].status = "failed"
        /\ Len(cur[t].got) = 7
        /\ cur[t].got[7] = <<"0", "0", "\r">>
        /\ limits[cur[t].dev.name] = <<>>

\* C16: the find-limits motion sequence of an axis starts at most once.
C16_FindLimitsAtMostOnce == \A a \in {<<"X">>, <<"Y">>} : runs[a] <= 1

\* the construction has sent the probe and read a description that starts
\* with the prefix and does not go on with "NONE\r"
ProbedPresent(t, probe, prefix) ==
    \E i \in 1..Len(cur[t].got) :
        /\ cur[t].sent[i] = probe \o <<"\r">>
        /\ StartsWith(cur[t].got[i], prefix)
        /\ ~StartsWith(cur[t].got[i], prefix \o <<"N", "O", "N", "E", "\r">>)

\* C17: when the construction of the controller has succeeded, its map has
\* the label "filter n", for n in 1..3, exactly when the probe of wheel n found
\* it present, with the adapter of wheel n, the label "stage" exactly when the
\* probe of the stage found it present, and no other label.
C17_DiscoveredDevices ==
    (cur[MainThread].name = "ProScanIII.__init__" /\ cur[MainThread].status = "ok") =>
        /\ \A n \in 1..3 :
             LET label == <<"f", "i", "l", "t", "e", "r", " ", Digits[n + 1]>>
                 here == [label |-> label,
                          dev |-> [kind |-> "wheel", name |-> <<>>, number |-> n]]
             IN  /\ here \in _devices <=>
                        ProbedPresent(MainThread,
                                      <<"F", "I", "L", "T", "E", "R", " ", Digits[n + 1]>>,
                                      <<"F", "I", "L", "T", "E", "R", "_", Digits[n + 1],
                                        " ", "=", " ">>)
                 /\ \A e \in _devices : e.label = label => e = here
        /\ (\E e \in _devices : e.label = <<"s", "t", "a", "g", "e">>) <=>
               ProbedPresent(MainThread, <<"S", "T", "A", "G", "E">>,
                             <<"S", "T", "A", "G", "E", " ", "=", " ">>)
        /\ \A e \in _devices :
               \/ e.label = <<"s", "t", "a", "g", "e">> /\ e.dev.kind = "stage"
               \/ \E n \in 1..3 :
                     e.label = <<"f", "i", "l", "t", "e", "r", " ", Digits[n + 1]>>

\* a controller has been constructed with every device absent
C17_Witness ==
    /\ cur[MainThread].name = "ProScanIII.__init__"
    /\ cur[MainThread].status = "ok"
    /\ Len(cur[MainThread].sent) = 5
    /\ _devices = {}

\* C18: no operation on a constructed controller or on its devices changes
\* the map, and the devices property returns it.
C18_MapImmutable ==
    [][/\ _devices' = _devices
       /\ \A t \in Threads :
            (cur'[t].name = "devices" /\ cur'[t].status = "ok") =>
                ret'[t].map = _devices]_vars

\* the map has been asked for after a find-limits run
C18_Witness ==
    \E t \in Threads :
        /\ cur[t].name = "devices"
        /\ cur[t].status = "ok"
        /\ Cardinality(ret[t].map) = 2
        /\ \E a \in {<<"X">>, <<"Y">>} : runs[a] = 1

\* thread u, in a set or move exchange, has read a reply that is not the
\* expected one and its drain has not ended
AfterUnexpected(u) ==
    \E i \in 1..Len(stack[u]) :
        LET f == stack[u][i]
            top == stack[u][Len(stack[u])]
        IN  /\ f.proc = "_command_and_validate"
            /\ \/ f.pc = "drain"
               \/ f.pc = "raise" /\ i < Len(stack[u])
               \/ f.pc = "check" /\ i = Len(stack[u]) /\ ret[u].bytes # f.exp
               \/ /\ f.pc = "check"
                  /\ top.proc = "get_command"
                  /\ top.pc = "unlock"
                  /\ ret[u].bytes # f.exp
               \/ /\ f.pc = "check"
                  /\ top.proc = "readline"
                  /\ top.pc = "unlock"
                  /\ top.ans # f.exp

\* C19: from the read of an unexpected reply by a set or move exchange to
\* the end of its drain the thread holds the lock and no other thread
\* writes to, reads from or flushes the serial port; the error is raised
\* after the drain has read an empty line.
C19_DrainInCriticalSection ==
    \A u \in Threads :
        /\ AfterUnexpected(u) =>
            /\ held[u] > 0
            /\ \A v \in Threads \ {u} : held[v] = 0
            /\ wire.by \in {"none", u}
        /\ (/\ cur[u].name \in {"set_command", "move_command"}
            /\ exc[u].kind = "RuntimeError") => cur[u].drains = 1

\* a thread drains the input after an unexpected reply to a move while the
\* other one waits for the lock
C19_Witness ==
    \E u, v \in Threads :
        /\ u # v
        /\ cur[u].name = "move_command"
        /\ AfterUnexpected(u)
        /\ wire.by = u
        /\ wire.kind = "flush"
        /\ stack[v] # <<>>
        /\ Top(v).pc = "lock"

\* thread t is about to enter a with self._lock block
LockWait(t) == stack[t] # <<>> /\ exc[t].kind = "none" /\ Top(t).pc = "lock"

\* the with self._lock blocks thread t is in
Depth(t) ==
    Cardinality({i \in 1..Len(stack[t]) :
                   /\ stack[t][i].proc \in {"command", "readline", "read_until_timeout",
                                             "get_command", "_command_and_validate",
                                             "get_description", "_has_thing", "__init__"}
                   /\ stack[t][i].pc \notin {"lock", "ret"}})

\* C20: a thread holds the lock once for each with block it is in, so not at
\* all when it is in no call, whether the blocks ended normally or by an
\* exception; only one thread holds it; a thread that holds it and enters a
\* nested block can go on; and a thread that waits for the lock gets it.
C20_NoDeadlock ==
    /\ [](\A t \in Threads :
            /\ held[t] = Depth(t)
            /\ held[t] > 0 => \A u \in Threads \ {t} : held[u] = 0
            /\ (LockWait(t) /\ held[t] > 0) => ENABLED Step(t))
    /\ \A t \in Threads : LockWait(t) ~> (held[t] > 0 /\ ~LockWait(t))

\* a thread that holds the lock is about to take it again while the other
\* thread waits for it
C20_Witness ==
    \E t, u \in Threads :
        /\ t # u
        /\ LockWait(t)
        /\ held[t] = 2
        /\ LockWait(u)
        /\ held[u] = 0

\* the last element of a non-empty sequence
Last(s) == s[Len(s)]

\* the calls that fail when the device's reply is not the expected one
Validating == {"set_command", "move_command", "has_stage", "__init__"}

\* what thread t read last from the device in its call
ActualReply(t) ==
    IF cur[t].name = "__init__" /\ cur[t].reply = Header THEN cur[t].block
    ELSE IF cur[t].got = <<>> THEN <<>> ELSE Last(cur[t].got)

\* the reply that thread t read last is the one its call accepts
ReplyExpected(t) ==
    CASE cur[t].name = "set_command" -> ActualReply(t) = Ack0
      [] cur[t].name = "move_command" -> ActualReply(t) = AckR
      [] cur[t].name = "has_stage" -> StartsWith(ActualReply(t), StagePrefix)
      [] cur[t].name = "__init__" ->
           cur[t].reply = Header /\ EndOfDescription(cur[t].block)
      [] OTHER -> TRUE

\* C21: a set, a move, a description probe or the handshake that reads an
\* unexpected reply ends with an error, never with a normal return, and the
\* error carries the command that was written and the reply that was read.
C21_FailuresCarryCommandAndReply ==
    \A t \in Threads :
        cur[t].name \in Validating =>
            /\ cur[t].status = "ok" => ReplyExpected(t)
            /\ exc[t].kind = "RuntimeError" =>
                /\ cur[t].sent # <<>>
                /\ Last(cur[t].sent) = exc[t].cmd \o <<CR>>
                /\ exc[t].reply = ActualReply(t)

\* thread t is in read_until_timeout at pc
AtDrain(t, pc) == At(t, "read_until_timeout", pc)

InDrain(t) == stack[t] # <<>> /\ Top(t).proc = "read_until_timeout"

\* C22: read_until_timeout empties the input buffer before its first read,
\* reads on after every read that returned bytes and stops after the first
\* read that returned none; that read leaves the buffer empty, and until the
\* drain returns the buffer only gains bytes that arrive later; the drain
\* ends, the device having a bounded number of bytes to send.
C22_ReadUntilTimeout ==
    /\ [](\A t \in Threads :
            (AtDrain(t, "unlock") /\ wire.by = t) =>
                /\ wire.kind = "read"
                /\ wire.data = <<>>
                /\ inbuf = <<>>)
    /\ [][\A t \in Threads :
            /\ (AtDrain(t, "flush") /\ ~AtDrain(t, "flush")') =>
                  (inbuf' = <<>> /\ AtDrain(t, "loop")')
            /\ (AtDrain(t, "loop") /\ wire'.by = t) =>
                  /\ wire'.kind = "read"
                  /\ IF wire'.data = <<>>
                     THEN AtDrain(t, "unlock")' ELSE AtDrain(t, "loop")'
            /\ AtDrain(t, "unlock") =>
                  \/ inbuf' = inbuf
                  \/ inflight # <<>> /\ inbuf' = inbuf \o Head(inflight).data]_vars
    /\ \A t \in Threads : InDrain(t) ~> ~InDrain(t)

\* a drain has made its empty read, and bytes that arrived after that read
\* are in the buffer when it returns
C22_Witness ==
    \E t \in Threads :
        /\ AtDrain(t, "unlock")
        /\ cur[t].drains = 1
        /\ inbuf # <<>>

\* C23: a get_command that returns, and a set_command or move_command that
\* accepts its reply, has read no byte that the device sent in answer to a
\* command written before the one of this exchange.
C23_RepliesAnswerTheirCommand ==
    \A t \in Threads :
        (/\ cur[t].name \in {"get_command", "set_command", "move_command"}
         /\ cur[t].status = "ok") => ~cur[t].late

\* thread t is in a move_command
Moving(t) == \E i \in 1..Len(stack[t]) : stack[t][i].proc = "move_command"

\* C24: while no thread is in a move_command the read timeout of the port is
\* the one the connection was constructed with.
C24_TimeoutAtRest ==
    (\A t \in Threads : ~Moving(t)) => timeout = DefaultTimeout

\* thread t, finding a limit, has made the overshoot move and not yet asked
\* for the limit switches, or has asked and not yet read the position
BetweenSteps(t) ==
    \/ At(t, "_get_limit", "switch")
    \/ At(t, "_get_limit", "test") /\ ret[t].bool

\* C25: between the overshoot move of _find_limits and the limit-switch
\* query, and between that query and the position read, the thread holds no
\* lock, so that another thread can make an exchange there.
C25_FindLimitsNotAtomic ==
    \A t \in Threads : BetweenSteps(t) => held[t] = 0

\* the main thread has made an overshoot move and not yet asked for the limit
\* switches, and the other thread, moving the same axis, has written its
\* command since and now reads the reply to it
C25_Witness ==
    \E u \in Threads \ {MainThread} :
        /\ At(MainThread, "_get_limit", "switch")
        /\ cur[u].name = "move_to"
        /\ cur[u].dev = Axis(<<"X">>)
        /\ wire = Wire(u, "read", AckR)
        /\ ~cur[u].late

\* bit k of the number v
Bit(v, k) == (v \div (2 ^ k)) % 2 = 1

\* the bit of the LMT value that stands for a limit switch
SwitchBit(axis, sign) ==
    IF axis = <<"X">> THEN (IF sign = 1 THEN 0 ELSE 1)
    ELSE (IF sign = 1 THEN 2 ELSE 3)

\* the replies that give the byte v in hexadecimal: two digits of either case,
\* or one digit for a value below 16
HexReplies(v) ==
    { <<HexDigits[(v \div 16) + 1], HexDigits[(v % 16) + 1], CR>>,
      <<LowerHexDigits[(v \div 16) + 1], LowerHexDigits[(v % 16) + 1], CR>> }
    \cup (IF v < 16 THEN { <<HexDigits[v + 1], CR>> } ELSE {})

\* C26: for every byte value in hexadecimal the test of a limit switch gives
\* bit 0 for the upper X limit, bit 1 for the lower X limit, bit 2 for the
\* upper Y limit and bit 3 for the lower Y limit; a call of
\* is_limit_switch_active that returns has returned that bit of the reply it
\* read, and a call with a sign other than -1 and +1 writes nothing and fails.
C26_LimitSwitchBits ==
    /\ \A v \in 0..255 : \A r \in HexReplies(v) :
         /\ IsHex(r)
         /\ ToHex(r) = v
         /\ \A axis \in StageAxes, sign \in {-1, 1} :
              LimitActive(ToHex(r), axis, sign) = Bit(v, SwitchBit(axis, sign))
    /\ \A t \in Threads :
         cur[t].name = "is_limit_switch_active" =>
            /\ cur[t].n \notin {-1, 1} =>
                 /\ cur[t].sent = <<>>
                 /\ cur[t].status # "ok"
                 /\ Done(t) => exc[t].kind = "ValueError"
            /\ cur[t].status = "ok" =>
                 /\ cur[t].sent = << <<"L", "M", "T", "\r">> >>
                 /\ \E v \in 0..255 :
                      /\ Last(cur[t].got) \in HexReplies(v)
                      /\ ret[t].bool = Bit(v, SwitchBit(cur[t].arg, cur[t].n))

\* the lower Y switch was asked for and the reply 0A, bits 1 and 3, was read
C26_Witness ==
    \E t \in Threads :
        /\ cur[t].name = "is_limit_switch_active"
        /\ cur[t].status = "ok"
        /\ cur[t].arg = <<"Y">>
        /\ cur[t].n = -1
        /\ cur[t].got = << <<"0", "A", "\r">> >>
        /\ ret[t].bool

\* numerals to choose the decimal numeral of a position from
Numerals == {IntToBytes(v) : v \in -(10 * MaxPos + 12)..(10 * MaxPos + 12)}
            \cup {<<"+", "1">>, <<"0", "1">>, <<"-", "0", "1">>}

\* w is the command made of the words before, the numerals of the numbers in
\* ns with a blank between them, and the words after
IsCommand(w, before, ns, after) ==
    \E ds \in [1..Len(ns) -> Numerals] :
        /\ \A i \in 1..Len(ns) : IsDecimalOf(ds[i], ns[i])
        /\ w = before
               \o (IF Len(ns) = 1 THEN ds[1] ELSE ds[1] \o <<" ">> \o ds[2])
               \o after \o <<"\r">>

\* the one command that a move of the stage by or to pos writes
StageCommand(w, name, pos) ==
    IF Len(pos) = 2
    THEN IsCommand(w, IF name = "Stage.move_by" THEN <<"G", "R", " ">> ELSE <<"G", " ">>,
                   <<Get(pos, "x"), Get(pos, "y")>>, <<" ", "0">>)
    ELSE IF name = "Stage.move_by"
    THEN IF pos[1][1] = "x"
         THEN IsCommand(w, <<"G", "R", " ">>, <<pos[1][2]>>, <<" ", "0", " ", "0">>)
         ELSE IsCommand(w, <<"G", "R", " ", "0", " ">>, <<pos[1][2]>>, <<" ", "0">>)
    ELSE IsCommand(w, IF pos[1][1] = "x" THEN <<"G", "X", " ">> ELSE <<"G", "Y", " ">>,
                   <<pos[1][2]>>, <<>>)

\* pos names x alone, y alone, or x and y
NamesAxes(pos) ==
    /\ Len(pos) \in {1, 2}
    /\ \A i \in 1..Len(pos) : pos[i][1] \in {"x", "y"}

AllHomed == \A c \in 1..3 : BitAnd(tmc.bits[c], MOTOR_HOMED) # 0

LastCall == ueye.last

LastIds == 1..Len(LastCall.ids)

WasClosed(i) == LastCall.before[LastCall.ids[i]] = "closed"

\* an InitCamera that got past the checks of its arguments
Initialised ==
    /\ LastCall.op = "InitCamera"
    /\ ~LastCall.hWnd
    /\ LastCall.arg = 0 \/ BitAnd(LastCall.arg, DeviceIdFlag) # 0

\* every camera but those in the set is as it was before the call
Untouched(cameras) ==
    \A c \in Cameras \ cameras : ueye.mode[c] = LastCall.before[c]

\* C30: InitCamera succeeds only on a camera that was closed; with device id 0
\* it opens the closed camera with the smallest device id; with no closed
\* camera, or with the id of an open or unknown camera, it returns 3 and the
\* handle is 0; ExitCamera on a closed or unknown camera returns 1 and changes
\* no camera's state.
C30_MockOpensClosedCamerasOnly ==
    /\ (Initialised /\ LastCall.exc = "none" /\ LastCall.ret = 0) =>
          /\ LastCall.handle \in LastIds
          /\ WasClosed(LastCall.handle)
          /\ ueye.mode[LastCall.ids[LastCall.handle]] = "freerun"
    /\ (Initialised /\ DeviceIdOf(LastCall.arg) = 0 /\ \E i \in LastIds : WasClosed(i)) =>
          LET i == CHOOSE i \in LastIds :
                     WasClosed(i) /\ \A j \in LastIds : WasClosed(j) => i <= j
          IN  /\ ueye.mode[LastCall.ids[i]] = "freerun"
              /\ Untouched({LastCall.ids[i]})
              /\ LastCall.exc = "none" => LastCall.ret = 0 /\ LastCall.handle = i
    /\ (/\ Initialised
        /\ \/ DeviceIdOf(LastCall.arg) = 0 /\ \A i \in LastIds : ~WasClosed(i)
           \/ DeviceIdOf(LastCall.arg) # 0 /\ DeviceIdOf(LastCall.arg) \notin LastIds
           \/ DeviceIdOf(LastCall.arg) \in LastIds /\ ~WasClosed(DeviceIdOf(LastCall.arg))) =>
          /\ LastCall.exc = "none"
          /\ LastCall.ret = 3
          /\ LastCall.handle = 0
          /\ Untouched({})
    /\ (/\ LastCall.op = "ExitCamera"
        /\ LastCall.arg \in LastIds => WasClosed(LastCall.arg)) =>
          /\ LastCall.ret = 1
          /\ Untouched({})

\* with the camera of device id 1 open, InitCamera with device id 0 has opened
\* the camera of device id 2
C30_Witness ==
    /\ Initialised
    /\ DeviceIdOf(LastCall.arg) = 0
    /\ Len(LastCall.ids) >= 2
    /\ ~WasClosed(1)
    /\ LastCall.ret = 0
    /\ LastCall.exc = "none"
    /\ LastCall.handle = 2

====
